---- MODULE Spec2Model ----
(***************************************************************************)
(* A model of the gb.teensy CPU core: CPU::cpuStep of lib/CPU/CPU.cpp with  *)
(* its helpers (readOp, readNn, pushStack, popStack), the flag macros and   *)
(* the complete opcode switch, including the 0xCB page.                     *)
(*                                                                         *)
(* Registers are the 16-bit words of the source.  C expressions are        *)
(* evaluated as the compiler evaluates them: operands are promoted to int, *)
(* bitwise operators work on the two's-complement pattern, and an          *)
(* assignment to a uint16_t / uint8_t / bool truncates.                    *)
(*                                                                         *)
(* Memory.h, Timer.h and CPU.h are not part of the sources at hand; the    *)
(* bus, the timer tick and the interrupt constants follow spec.md.         *)
(***************************************************************************)
EXTENDS Integers, Sequences, FiniteSets, TLC

VARIABLES
    AF, BC, DE, HL, SP, PC,     \* register file (uint16_t each)
    IME, halted,                \* master interrupt enable, HALT latch
    enableIRQ, disableIRQ,      \* EI / DI delay counters
    cyclesDelta, totalCycles,   \* cost of the last instruction, running sum
    cpuEnabled,                 \* virtual power switch
    op,                         \* CPU::op, the opcode fetched last
    mem,                        \* bytes written to RAM so far (address -> byte)
    cart,                       \* the cartridge image (never changes)
    timerTicks,                 \* number of GBTimer::timerStep() calls made
    stopped,                    \* stopAndRestart() was entered (it never returns)
    irqCount,                   \* interrupt requests raised by devices so far
    obs,                        \* what the most recent cpuStep call did
    mbc,                        \* the MBC1 object: latches, bank counts, RAM
    mbcLast                     \* what the most recent MBC1 access did

cpuVars == << AF, BC, DE, HL, SP, PC, IME, halted, enableIRQ, disableIRQ,
              cyclesDelta, totalCycles, cpuEnabled, op, mem, cart, timerTicks,
              stopped, irqCount, obs >>

vars == << cpuVars, mbc, mbcLast >>

-----------------------------------------------------------------------------
(* Bounds of the model.                                                    *)

\* RunStep is not taken once totalCycles has reached MaxCycles.
MaxCycles == 14
\* Devices raise interrupt requests at most MaxIrq times in one run.
MaxIrq == 1
\* Number of instructions in the body of a program of the step-protocol runs.
BodyLen == 3
\* Cycles spent before the sampled state of the single-instruction runs, and
\* the value of totalCycles from which InstrStep is no longer taken.
PriorCycles == 3
MaxInstrCycles == 5

-----------------------------------------------------------------------------
(* C integer arithmetic.                                                   *)

RECURSIVE BitAnd(_, _)
BitAnd(a, b) ==
    IF a = 0 \/ b = 0 THEN 0
    ELSE (a % 2) * (b % 2) + 2 * BitAnd(a \div 2, b \div 2)

RECURSIVE BitOr(_, _)
BitOr(a, b) ==
    IF a = 0 THEN b
    ELSE IF b = 0 THEN a
    ELSE (IF a % 2 = 1 \/ b % 2 = 1 THEN 1 ELSE 0) + 2 * BitOr(a \div 2, b \div 2)

RECURSIVE BitXor(_, _)
BitXor(a, b) ==
    IF a = 0 THEN b
    ELSE IF b = 0 THEN a
    ELSE ((a + b) % 2) + 2 * BitXor(a \div 2, b \div 2)

\* The two's-complement pattern of an int, kept to its low 30 bits: no
\* intermediate value of the program reaches beyond them, and every result
\* of a bitwise operator is masked or truncated to at most 16 bits.
Pat(x) == x % 1073741824

And(a, b) == BitAnd(Pat(a), Pat(b))
Or(a, b)  == BitOr(Pat(a), Pat(b))
Xor(a, b) == BitXor(Pat(a), Pat(b))

\* Conversions on assignment: uint16_t, uint8_t, int8_t, and bool as an int.
W16(x) == x % 65536
B8(x)  == x % 256
S8(x)  == IF B8(x) >= 128 THEN B8(x) - 256 ELSE B8(x)
B2I(b)  == IF b THEN 1 ELSE 0

-----------------------------------------------------------------------------
(* Compiler macros of CPU.cpp.                                             *)

LD_Nn_n(t, s)  == Or(s * 256, And(t, \h00FF))
LD_nN_n(t, s)  == Or(s, And(t, \hFF00))
LD_Nn_Nn(t, s) == Or(And(s, \hFF00), And(t, \h00FF))
LD_Nn_nN(t, s) == LD_Nn_n(t, s)
LD_nN_Nn(t, s) == Or(s \div 256, And(t, \hFF00))
LD_nN_nN(t, s) == Or(And(s, \h00FF), And(t, \hFF00))

AND_Nn_Nn(nn1, nn2) == And(And(nn1, nn2), \hFF00) \div 256
AND_Nn_nN(nn1, nn2) == And(And(nn1 \div 256, nn2), \h00FF)
OR_Nn_Nn(nn1, nn2)  == And(Or(nn1, nn2), \hFF00) \div 256
OR_Nn_nN(nn1, nn2)  == And(Or(nn1 \div 256, nn2), \h00FF)
XOR_Nn_Nn(nn1, nn2) == And(Xor(nn1, nn2), \hFF00) \div 256
XOR_Nn_nN(nn1, nn2) == And(Xor(nn1 \div 256, nn2), \h00FF)

ZERO_V  == 128
SUB_V   == 64
HALF_V  == 32
CARRY_V == 16
\* A variant of ZERO_F that reads the zero flag as clear.
ZERO_F_Clear(nn) == 0 * nn
ZERO_F(nn)  == And(nn, ZERO_V)
\* A variant of SUB_F that reads the subtract flag as clear.
SUB_F_Clear(nn) == 0 * nn
SUB_F(nn)   == And(nn, SUB_V)
HALF_F(nn)  == And(nn, HALF_V)
\* A variant of CARRY_F that reads the carry flag as clear.
CARRY_F_Clear(nn) == 0 * nn
CARRY_F(nn) == And(nn, CARRY_V)
\* A variant of ZERO_S that never sets the zero flag.
ZERO_S_Never(nn) == 0 * nn
ZERO_S(nn)  == IF nn = 0 THEN ZERO_V ELSE 0
\* A variant of HALF_S that tests the carry out of bit 11, as HALF_Snn does.
HALF_S_Wide(n1, n2) == B2I(And(n1, \h0FFF) + And(n2, \h0FFF) > \h0FFF) * 32
HALF_S(n1, n2)     == B2I(And(n1, 15) + And(n2, 15) > 15) * 32
\* A variant of HALF_Sc that leaves the carry-in out of the nibble sum.
HALF_Sc_NoCarry(n1, n2, c) == B2I(And(n1, 15) + And(n2, 15) > 15) * 32 + 0 * c
HALF_Sc(n1, n2, c) == B2I(And(n1, 15) + (And(n2, 15) + c) > 15) * 32
\* A variant of HALF_Snn that tests the carry out of bit 3.
HALF_Snn_Low(nn1, nn2) == B2I(And(nn1, 15) + And(nn2, 15) > 15) * 32
HALF_Snn(nn1, nn2) == B2I(And(nn1, \h0FFF) + And(nn2, \h0FFF) > \h0FFF) * 32
CARRY_S(n, n1, n2) == Or(B2I(n < n1), B2I(n < n2)) * 16
CARRY_Sc(n, n1, n2, c) == Or(B2I((n - c) < n1), B2I((n - c) < n2)) * 16
HBORROW_S(n1, n2)     == B2I(And(n1, 15) < And(n2, 15)) * 32
HBORROW_Sc(n1, n2, c) == B2I(And(n1, 15) < (And(n2, 15) + c)) * 32
\* A variant of BORROW_S that also borrows when the operands are equal.
BORROW_S_Equal(n1, n2) == B2I(n1 <= n2) * 16
BORROW_S(n1, n2)      == B2I(n1 < n2) * 16
BORROW_Sc(n1, n2, c)  == Or(B2I(n1 < n2), B2I(n1 < (n2 + c))) * 16

-----------------------------------------------------------------------------
(* Interrupt and bus constants (CPU.h / Memory.h; values from spec.md).    *)

PC_START       == 256
MEM_IRQ_FLAG   == 65295
MEM_IRQ_ENABLE == 65535

\* Interrupt sources 0..4: VBlank, LCD STAT, Timer, Serial, Joypad.
IrqMask(b)   == 2 ^ b
IrqVector(b) == 64 + 8 * b

-----------------------------------------------------------------------------
(* The memory bus (Memory::readByte / Memory::writeByte).                  *)

\* The cartridge image: prog at PC_START, isr at each interrupt vector,
\* fill everywhere else.
RomByte(a) ==
    IF a >= PC_START /\ a < PC_START + Len(cart.prog)
    THEN cart.prog[a - PC_START + 1]
    ELSE IF \E b \in 0..4 : a >= IrqVector(b) /\ a < IrqVector(b) + Len(cart.isr)
    THEN LET b == CHOOSE x \in 0..4 :
                     a >= IrqVector(x) /\ a < IrqVector(x) + Len(cart.isr)
         IN  cart.isr[a - IrqVector(b) + 1]
    ELSE cart.fill

\* Echo RAM 0xE000-0xFDFF mirrors 0xC000-0xDDFF.
Phys(a) == IF a >= 57344 /\ a <= 65023 THEN a - 8192 ELSE a

\* Cartridge ROM and control window; absent cartridge RAM; unusable area.
IsRom(p)      == p < 32768
IsUnmapped(p) == (p >= 40960 /\ p <= 49151) \/ (p >= 65184 /\ p <= 65279)

readByte(m, a) ==
    LET p == Phys(a) IN
    IF IsRom(p) THEN RomByte(p)
    ELSE IF IsUnmapped(p) THEN 255
    ELSE IF p \in DOMAIN m THEN m[p]
    ELSE 0

writeByte(m, a, v) ==
    LET p == Phys(a) IN
    IF IsRom(p) \/ IsUnmapped(p) THEN m
    ELSE [x \in DOMAIN m \cup {p} |-> IF x = p THEN B8(v) ELSE m[x]]

-----------------------------------------------------------------------------
(* The MBC1 cartridge (MBC1.h; the bodies of its methods from spec.md 4.3). *)

RAM_ENABLE_BOT       == 0
\* A variant of RAM_ENABLE_TOP that ends the window at 0x2FFF.
RAM_ENABLE_TOP_Wide  == RAM_ENABLE_BOT + 12287
RAM_ENABLE_TOP       == 8191
\* A variant of PRIMARY_BANK_BOT that starts the window at 0x3000.
PRIMARY_BANK_BOT_High == RAM_ENABLE_BOT + 12288
PRIMARY_BANK_BOT     == 8192
PRIMARY_BANK_TOP     == 16383
SECONDARY_BANK_BOT   == 16384
SECONDARY_BANK_TOP   == 24575
BANKING_MODE_SEL_BOT == 24576
BANKING_MODE_SEL_TOP == 32767

\* Indexed by ROM size code + 1.
secondRomBankCount == << 0, 4, 8, 16, 32, 63, 124 >>
firstRomBankCount  == << 1, 1, 1, 1, 1, 1, 4 >>

\* The number of 16 KiB banks a ROM size code declares.
RomBankCount(code) == 2 ^ (code + 1)

\* The ROM image: every byte of bank b is b.  The battery-backed RAM as the
\* last power cycle left it: 0x5A at offset 0 of bank 0, zero elsewhere.
MbcRomByte(b, off) == b
SavedRam == << 0, 0 >> :> 90

\* The object after construction for a cartridge of ROM size code `code`.
MBC1_new(code) ==
    [romSize |-> code,
     ramEnable |-> 0, primaryBankBits |-> 1, secondaryBankBits |-> 0,
     bankModeSelect |-> 0,
     firstRomBankCount |-> firstRomBankCount[code + 1],
     secondaryRomBankCount |-> secondRomBankCount[code + 1],
     ramBanks |-> SavedRam]

\* The bank mapped at 0x4000-0x7FFF and the RAM bank mapped at 0xA000.
HighBank(m) ==
    Or(m.secondaryBankBits * 32, m.primaryBankBits) % RomBankCount(m.romSize)
RamBank(m) == IF m.bankModeSelect = 1 THEN m.secondaryBankBits ELSE 0

MBC1_readByte(m, addr) ==
    IF addr < 16384
    THEN MbcRomByte(IF m.bankModeSelect = 0 THEN 0
                    ELSE (m.secondaryBankBits * 32) % RomBankCount(m.romSize),
                    addr)
    ELSE IF addr < 32768 THEN MbcRomByte(HighBank(m), addr - 16384)
    ELSE IF m.ramEnable = 0 THEN 255
    ELSE IF << RamBank(m), addr - 40960 >> \in DOMAIN m.ramBanks
    THEN m.ramBanks[<< RamBank(m), addr - 40960 >>]
    ELSE 0

MBC1_writeByte(m, addr, data) ==
    IF addr >= RAM_ENABLE_BOT /\ addr <= RAM_ENABLE_TOP
    THEN [m EXCEPT !.ramEnable = B2I(And(data, \h0F) = \h0A)]
    ELSE IF addr >= PRIMARY_BANK_BOT /\ addr <= PRIMARY_BANK_TOP
    THEN [m EXCEPT !.primaryBankBits =
              IF And(data, \h1F) = 0 THEN 1 ELSE And(data, \h1F)]
    ELSE IF addr >= SECONDARY_BANK_BOT /\ addr <= SECONDARY_BANK_TOP
    THEN [m EXCEPT !.secondaryBankBits = And(data, \h03)]
    ELSE IF addr >= BANKING_MODE_SEL_BOT /\ addr <= BANKING_MODE_SEL_TOP
    THEN [m EXCEPT !.bankModeSelect = And(data, \h01)]
    ELSE IF addr >= 40960 /\ addr <= 49151 /\ m.ramEnable # 0
    THEN LET k == << RamBank(m), addr - 40960 >> IN
         [m EXCEPT !.ramBanks =
              [x \in DOMAIN m.ramBanks \cup {k} |->
                  IF x = k THEN B8(data) ELSE m.ramBanks[x]]]
    ELSE m

\* mbcLast before the first access.  gate is the value most recently
\* written to 0x0000-0x1FFF, -1 if there was none.
NoAccess == [n |-> 0, kind |-> "none", addr |-> 0, data |-> 0, ret |-> 0,
             pre |-> MBC1_new(0), gate |-> -1]

-----------------------------------------------------------------------------
(* A CPU context: the registers, latches and memory a step works on.       *)

Ctx == [AF |-> AF, BC |-> BC, DE |-> DE, HL |-> HL, SP |-> SP, PC |-> PC,
        IME |-> IME, halted |-> halted, enableIRQ |-> enableIRQ,
        disableIRQ |-> disableIRQ, cyclesDelta |-> cyclesDelta,
        totalCycles |-> totalCycles, mem |-> mem, stopped |-> FALSE,
        disp |-> -1]

\* readOp: the byte at PC, and PC++.
opByte(c) == readByte(c.mem, c.PC)
advPC(c)  == [c EXCEPT !.PC = W16(c.PC + 1)]

\* A variant of nnWord that takes the first byte as the high byte.
nnWord_HighFirst(c) ==
    Or(readByte(c.mem, c.PC) * 256, readByte(c.mem, W16(c.PC + 1)))
\* readNn: two bytes at PC, low byte first, and PC += 2.
nnWord(c) == Or(readByte(c.mem, c.PC), readByte(c.mem, W16(c.PC + 1)) * 256)
\* A variant of advPC2 that moves PC past one byte only.
advPC2_One(c) == [c EXCEPT !.PC = W16(c.PC + 1)]
advPC2(c) == [c EXCEPT !.PC = W16(c.PC + 2)]

\* A variant of pushStack that stores the low byte first, at SP-1.
pushStack_LowFirst(c, data) ==
    LET sp1 == W16(c.SP - 1)
        m1  == writeByte(c.mem, sp1, And(data, \h00FF))
        sp2 == W16(sp1 - 1)
        m2  == writeByte(m1, sp2, data \div 256)
    IN  [c EXCEPT !.SP = sp2, !.mem = m2]

\* pushStack: SP--, the high byte, SP--, the low byte.
pushStack(c, data) ==
    LET sp1 == W16(c.SP - 1)
        m1  == writeByte(c.mem, sp1, data \div 256)
        sp2 == W16(sp1 - 1)
        m2  == writeByte(m1, sp2, And(data, \h00FF))
    IN  [c EXCEPT !.SP = sp2, !.mem = m2]

\* A variant of popWord that reads the high byte at SP and the low byte at
\* SP+1.
popWord_HighFirst(c) ==
    Or(readByte(c.mem, c.SP) * 256, readByte(c.mem, W16(c.SP + 1)))
\* popStack: the word read, and the context after it.
popWord(c) == Or(readByte(c.mem, W16(c.SP + 1)) * 256, readByte(c.mem, c.SP))
popAdv(c)  == [c EXCEPT !.SP = W16(c.SP + 2)]

\* A variant of Cyc that records the cost in clock cycles (four to a
\* machine cycle).
Cyc_Clock(c, k) == [c EXCEPT !.cyclesDelta = 4 * k]

\* cyclesDelta = k
Cyc(c, k) == [c EXCEPT !.cyclesDelta = k]

-----------------------------------------------------------------------------
(* Operand decoding.  Bits 0-2 of an opcode (bits 3-5 for a destination)   *)
(* select B, C, D, E, H, L, (HL), A; the source spells every case out.     *)

Pair(i) == CASE i \in {0, 1} -> "BC"
             [] i \in {2, 3} -> "DE"
             [] i \in {4, 5} -> "HL"
             [] OTHER        -> "AF"
IsHi(i) == i \in {0, 2, 4, 7}

\* The uint8_t operand n2 of the arithmetic cases: rr >> 8, rr & 0x00FF or
\* Memory::readByte(HL).
Operand(c, i) ==
    IF i = 6 THEN readByte(c.mem, c.HL)
    ELSE IF IsHi(i) THEN B8(c[Pair(i)] \div 256)
    ELSE And(c[Pair(i)], \h00FF)

\* Cost of a register form and of its (HL) form.
RegCost(i, r, m) == IF i = 6 THEN m ELSE r

-----------------------------------------------------------------------------
(* NOP, STOP, HALT.                                                        *)

ExecMisc(c, o) ==
    CASE o = \h00 -> Cyc(c, 1)
      [] o = \h10 -> Cyc(advPC(c), 1)
      [] o = \h76 -> Cyc([c EXCEPT !.halted = TRUE], 1)

-----------------------------------------------------------------------------
(* 8-bit loads: LD nn,n / LD r1,r2 / LD (HL),n / LD A,n / LD n,A.          *)

\* LD r,n with the immediate byte n (0x06 ... 0x2E, 0x3E).
LD_r_n(c, i) ==
    LET n  == opByte(c)
        c1 == advPC(c)
        r  == Pair(i)
    IN  Cyc([c1 EXCEPT ![r] = W16(IF IsHi(i) THEN LD_Nn_n(c1[r], n)
                                              ELSE LD_nN_n(c1[r], n))], 2)

\* LD r1,r2 between registers, from (HL) and to (HL) (0x40 ... 0x7F).
LD_r1_r2(c, d, s) ==
    IF d = 6
    THEN Cyc([c EXCEPT !.mem = writeByte(c.mem, c.HL,
                 IF IsHi(s) THEN c[Pair(s)] \div 256
                            ELSE And(c[Pair(s)], \h00FF))], 2)
    ELSE LET t == Pair(d) IN
         IF s = 6
         THEN LET n == readByte(c.mem, c.HL) IN
              Cyc([c EXCEPT ![t] = W16(IF IsHi(d) THEN LD_Nn_nN(c[t], n)
                                                   ELSE LD_nN_nN(c[t], n))], 2)
         ELSE LET v == c[Pair(s)] IN
              Cyc([c EXCEPT ![t] =
                      W16(CASE IsHi(d) /\ IsHi(s)   -> LD_Nn_Nn(c[t], v)
                            [] IsHi(d) /\ ~IsHi(s)  -> LD_Nn_nN(c[t], v)
                            [] ~IsHi(d) /\ IsHi(s)  -> LD_nN_Nn(c[t], v)
                            [] OTHER                -> LD_nN_nN(c[t], v))], 1)

\* The value stored by LD (..),A: AF >> 8.
AccByte(c) == c.AF \div 256

ExecLoadA(c, o) ==
    CASE o = \h36 ->
           Cyc([advPC(c) EXCEPT !.mem = writeByte(c.mem, c.HL, opByte(c))], 3)
      [] o = \h0A ->
           Cyc([c EXCEPT !.AF = W16(LD_Nn_nN(c.AF, readByte(c.mem, c.BC)))], 2)
      [] o = \h1A ->
           Cyc([c EXCEPT !.AF = W16(LD_Nn_nN(c.AF, readByte(c.mem, c.DE)))], 2)
      [] o = \hFA ->
           Cyc([advPC2(c) EXCEPT
                  !.AF = W16(LD_Nn_nN(c.AF, readByte(c.mem, nnWord(c))))], 4)
      [] o = \h02 ->
           Cyc([c EXCEPT !.mem = writeByte(c.mem, c.BC, AccByte(c))], 2)
      [] o = \h12 ->
           Cyc([c EXCEPT !.mem = writeByte(c.mem, c.DE, AccByte(c))], 2)
      [] o = \hEA ->
           Cyc([advPC2(c) EXCEPT
                  !.mem = writeByte(c.mem, nnWord(c), AccByte(c))], 4)
      \* LD A,(C) and LD (C),A: the address is BC | 0xFF00
      [] o = \hF2 ->
           Cyc([c EXCEPT !.AF = W16(LD_Nn_n(c.AF,
                  readByte(c.mem, W16(Or(c.BC, \hFF00)))))], 2)
      [] o = \hE2 ->
           Cyc([c EXCEPT !.mem = writeByte(c.mem, W16(Or(c.BC, \hFF00)),
                                           AccByte(c))], 2)
      \* LDH (n),A and LDH A,(n): the address is 0xFF00 + readOp()
      [] o = \hE0 ->
           Cyc([advPC(c) EXCEPT
                  !.mem = writeByte(c.mem, W16(65280 + opByte(c)), AccByte(c))], 3)
      [] o = \hF0 ->
           Cyc([advPC(c) EXCEPT !.AF = W16(LD_Nn_n(c.AF,
                  readByte(c.mem, W16(65280 + opByte(c)))))], 3)
      \* LDD A,(HL) / LDD (HL),A / LDI (HL),A / LDI A,(HL)
      [] o = \h3A ->
           Cyc([c EXCEPT !.AF = W16(LD_Nn_n(c.AF, readByte(c.mem, c.HL))),
                         !.HL = W16(c.HL - 1)], 2)
      [] o = \h32 ->
           Cyc([c EXCEPT !.mem = writeByte(c.mem, c.HL, AccByte(c)),
                         !.HL = W16(c.HL - 1)], 2)
      [] o = \h22 ->
           Cyc([c EXCEPT !.mem = writeByte(c.mem, c.HL, AccByte(c)),
                         !.HL = W16(c.HL + 1)], 2)
      [] o = \h2A ->
           Cyc([c EXCEPT !.AF = W16(LD_Nn_n(c.AF, readByte(c.mem, c.HL))),
                         !.HL = W16(c.HL + 1)], 2)

-----------------------------------------------------------------------------
(* 16-bit loads, PUSH and POP.                                             *)

ExecLoad16(c, o) ==
    CASE o = \h01 -> Cyc([advPC2(c) EXCEPT !.BC = nnWord(c)], 3)
      [] o = \h11 -> Cyc([advPC2(c) EXCEPT !.DE = nnWord(c)], 3)
      [] o = \h21 -> Cyc([advPC2(c) EXCEPT !.HL = nnWord(c)], 3)
      [] o = \h31 -> Cyc([advPC2(c) EXCEPT !.SP = nnWord(c)], 3)
      [] o = \hF9 -> Cyc([c EXCEPT !.SP = c.HL], 2)
      \* LDHL SP,n
      [] o = \hF8 ->
           LET sn == S8(opByte(c))
               c1 == advPC(c)
               hl == W16(c1.SP + sn)
           IN  Cyc([c1 EXCEPT
                      !.HL = hl,
                      !.AF = W16(LD_nN_n(c1.AF,
                                 Or(HALF_S(c1.SP, sn),
                                    CARRY_S(And(hl, \hFF), And(c1.SP, \hFF), sn))))],
                   3)
      \* LD (nn),SP
      [] o = \h08 ->
           LET nn == nnWord(c)
               c1 == advPC2(c)
               m1 == writeByte(c1.mem, nn, And(c1.SP, \hFF))
               m2 == writeByte(m1, W16(nn + 1), c1.SP \div 256)
           IN  Cyc([c1 EXCEPT !.mem = m2], 5)

\* A variant of MaskAF that keeps the popped word as it is.
MaskAF_None(w) == w

\* POP AF: popStack() & 0xFFF0
MaskAF(w) == And(w, \hFFF0)

ExecStack(c, o) ==
    CASE o = \hF5 -> Cyc(pushStack(c, c.AF), 4)
      [] o = \hC5 -> Cyc(pushStack(c, c.BC), 4)
      [] o = \hD5 -> Cyc(pushStack(c, c.DE), 4)
      [] o = \hE5 -> Cyc(pushStack(c, c.HL), 4)
      [] o = \hF1 -> Cyc([popAdv(c) EXCEPT !.AF = MaskAF(popWord(c))], 3)
      [] o = \hC1 -> Cyc([popAdv(c) EXCEPT !.BC = popWord(c)], 3)
      [] o = \hD1 -> Cyc([popAdv(c) EXCEPT !.DE = popWord(c)], 3)
      [] o = \hE1 -> Cyc([popAdv(c) EXCEPT !.HL = popWord(c)], 3)

-----------------------------------------------------------------------------
(* 8-bit arithmetic on A.  n2 is the operand byte, k the cycle cost.       *)

SetF(af, f) == W16(LD_nN_n(af, f))

ADD_A(c, n2, k) ==
    LET n1 == B8(c.AF \div 256)
        a  == W16(LD_Nn_n(c.AF, n1 + n2))
        n  == B8(a \div 256)
    IN  Cyc([c EXCEPT !.AF = SetF(a, Or(Or(ZERO_S(And(a, \hFF00)),
                                           HALF_S(n1, n2)),
                                        CARRY_S(n, n1, n2)))], k)

ADC_A(c, n2, k) ==
    LET n1 == B8(c.AF \div 256)
        cy == B2I(CARRY_F(c.AF) \div 16 # 0)
        a  == W16(LD_Nn_n(c.AF, n1 + n2 + cy))
        n  == B8(a \div 256)
    IN  Cyc([c EXCEPT !.AF = SetF(a, Or(Or(ZERO_S(And(a, \hFF00)),
                                           HALF_Sc(n1, n2, cy)),
                                        CARRY_Sc(n, n1, n2, cy)))], k)

SUB_n(c, n2, k) ==
    LET n1 == B8(c.AF \div 256)
        a  == W16(LD_Nn_n(c.AF, n1 - n2))
    IN  Cyc([c EXCEPT !.AF = SetF(a, Or(Or(Or(ZERO_S(And(a, \hFF00)), SUB_V),
                                           HBORROW_S(n1, n2)),
                                        BORROW_S(n1, n2)))], k)

SBC_n(c, n2, k) ==
    LET n1 == B8(c.AF \div 256)
        cy == B2I(CARRY_F(c.AF) \div 16 # 0)
        a  == W16(LD_Nn_n(c.AF, n1 - n2 - cy))
    IN  Cyc([c EXCEPT !.AF = SetF(a, Or(Or(Or(ZERO_S(And(a, \hFF00)), SUB_V),
                                           HBORROW_Sc(n1, n2, cy)),
                                        BORROW_Sc(n1, n2, cy)))], k)

CP_n(c, n2, k) ==
    LET n1 == B8(c.AF \div 256)
        n  == B8(n1 - n2)
    IN  Cyc([c EXCEPT !.AF = SetF(c.AF, Or(Or(Or(ZERO_S(n), SUB_V),
                                              HBORROW_S(n1, n2)),
                                           BORROW_S(n1, n2)))], k)

\* AND / OR / XOR: the new A.  i selects a register half or (HL); the
\* immediate forms pass the byte as (HL) forms do, through the _nN macro.
AndVal(c, i) ==
    IF i = 6 THEN AND_Nn_nN(c.AF, readByte(c.mem, c.HL))
    ELSE IF IsHi(i) THEN AND_Nn_Nn(c.AF, c[Pair(i)])
    ELSE AND_Nn_nN(c.AF, c[Pair(i)])
OrVal(c, i) ==
    IF i = 6 THEN OR_Nn_nN(c.AF, readByte(c.mem, c.HL))
    ELSE IF IsHi(i) THEN OR_Nn_Nn(c.AF, c[Pair(i)])
    ELSE OR_Nn_nN(c.AF, c[Pair(i)])
XorVal(c, i) ==
    IF i = 6 THEN XOR_Nn_nN(c.AF, readByte(c.mem, c.HL))
    ELSE IF IsHi(i) THEN XOR_Nn_Nn(c.AF, c[Pair(i)])
    ELSE XOR_Nn_nN(c.AF, c[Pair(i)])

\* A variant of LogicAF that keeps the carry flag.
LogicAF_KeepCarry(af, v, h) ==
    LET a == W16(LD_Nn_n(af, v))
    IN  SetF(a, Or(Or(ZERO_S(And(a, \hFF00)), h), CARRY_F(af)))

\* AF after the two assignments of an AND case (h = HALF_V) or of an
\* OR / XOR case (h = 0), v being the macro's value.
LogicAF(af, v, h) ==
    LET a == W16(LD_Nn_n(af, v)) IN SetF(a, Or(ZERO_S(And(a, \hFF00)), h))

\* AND D (0xA2) and AND E (0xA3) assign A a second time before the flags.
AndDE_AF(c, i) ==
    LET a  == W16(LD_Nn_n(c.AF, AndVal(c, i)))
        d  == IF i = 2 THEN c.DE \div 256 ELSE And(c.DE, \h00FF)
        a2 == W16(Or(And(d, a \div 256) * 256, And(a, \h00FF)))
    IN  SetF(a2, Or(ZERO_S(And(a2, \hFF00)), HALF_V))

ExecAlu(c, o) ==
    LET i == o % 8
        k == RegCost(i, 1, 2)
        f == (o - 128) \div 8
    IN  CASE f = 0 -> ADD_A(c, Operand(c, i), k)
          [] f = 1 -> ADC_A(c, Operand(c, i), k)
          [] f = 2 -> SUB_n(c, Operand(c, i), k)
          [] f = 3 -> SBC_n(c, Operand(c, i), k)
          [] f = 4 -> IF i \in {2, 3}
                      THEN Cyc([c EXCEPT !.AF = AndDE_AF(c, i)], k)
                      ELSE Cyc([c EXCEPT !.AF = LogicAF(c.AF, AndVal(c, i), HALF_V)], k)
          [] f = 5 -> Cyc([c EXCEPT !.AF = LogicAF(c.AF, XorVal(c, i), 0)], k)
          [] f = 6 -> Cyc([c EXCEPT !.AF = LogicAF(c.AF, OrVal(c, i), 0)], k)
          [] f = 7 -> CP_n(c, Operand(c, i), k)

\* The immediate forms 0xC6, 0xCE, 0xD6, 0xDE, 0xE6, 0xEE, 0xF6, 0xFE.
ExecAluImm(c, o) ==
    LET n2 == opByte(c)
        c1 == advPC(c)
    IN  CASE o = \hC6 -> ADD_A(c1, n2, 2)
          [] o = \hCE -> ADC_A(c1, n2, 2)
          [] o = \hD6 -> SUB_n(c1, n2, 2)
          [] o = \hDE -> SBC_n(c1, n2, 2)
          [] o = \hE6 -> Cyc([c1 EXCEPT
                   !.AF = LogicAF(c1.AF, AND_Nn_nN(c1.AF, n2), HALF_V)], 2)
          [] o = \hEE -> Cyc([c1 EXCEPT
                   !.AF = LogicAF(c1.AF, XOR_Nn_nN(c1.AF, n2), 0)], 2)
          [] o = \hF6 -> Cyc([c1 EXCEPT
                   !.AF = LogicAF(c1.AF, OR_Nn_nN(c1.AF, n2), 0)], 2)
          [] o = \hFE -> CP_n(c1, n2, 2)

-----------------------------------------------------------------------------
(* INC n / DEC n (8 bit).                                                  *)

\* up = TRUE for INC.  The flag byte is computed from the stored result.
IncDec8(c, i, up) ==
    LET n  == IF up THEN 0 ELSE SUB_V
        hv == IF up THEN 0 ELSE 15
    IN
    IF i = 6
    THEN LET m1 == writeByte(c.mem, c.HL,
                       readByte(c.mem, c.HL) + (IF up THEN 1 ELSE -1))
             v  == readByte(m1, c.HL)
         IN  Cyc([c EXCEPT
                    !.mem = m1,
                    !.AF = SetF(c.AF, Or(Or(Or(ZERO_S(v), n),
                                            B2I(And(v, \h0F) = hv) * 32),
                                         CARRY_F(c.AF)))], 3)
    ELSE LET r  == Pair(i)
             d  == IF up THEN 1 ELSE -1
             v  == IF IsHi(i) THEN W16(LD_Nn_Nn(c[r], c[r] + d * 256))
                              ELSE W16(LD_nN_nN(c[r], c[r] + d))
             c1 == [c EXCEPT ![r] = v]
             z  == IF IsHi(i) THEN ZERO_S(And(v, \hFF00)) ELSE ZERO_S(And(v, \h00FF))
             h  == IF IsHi(i) THEN B2I(And(v, \h0F00) = hv * 256) * 32
                              ELSE B2I(And(v, \h000F) = hv) * 32
         IN  IF i = 7 /\ ~up
             \* DEC A: the carry is or-ed onto the result of LD_nN_n
             THEN Cyc([c1 EXCEPT !.AF =
                         W16(Or(LD_nN_n(c1.AF, Or(Or(z, n), h)), CARRY_F(c1.AF)))], 1)
             ELSE Cyc([c1 EXCEPT !.AF =
                         SetF(c1.AF, Or(Or(Or(z, n), h), CARRY_F(c1.AF)))], 1)

-----------------------------------------------------------------------------
(* 16-bit arithmetic: ADD HL,n / ADD SP,n / INC nn / DEC nn.               *)

ADD_HL(c, nn2) ==
    LET nn1 == c.HL
        hl  == W16(nn1 + nn2)
    IN  Cyc([c EXCEPT
               !.HL = hl,
               !.AF = SetF(c.AF, Or(Or(ZERO_F(c.AF), HALF_Snn(nn1, nn2)),
                                    CARRY_S(hl, nn1, nn2)))], 2)

ExecArith16(c, o) ==
    CASE o = \h09 -> ADD_HL(c, c.BC)
      [] o = \h19 -> ADD_HL(c, c.DE)
      [] o = \h29 -> ADD_HL(c, c.HL)
      [] o = \h39 -> ADD_HL(c, c.SP)
      [] o = \hE8 ->
           LET nn == c.SP
               sn == S8(opByte(c))
               c1 == advPC(c)
               sp == W16(nn + sn)
           IN  Cyc([c1 EXCEPT
                      !.SP = sp,
                      !.AF = SetF(c1.AF,
                                  Or(HALF_S(nn, sn),
                                     CARRY_S(And(sp, \hFF), And(nn, \hFF), sn)))], 4)
      [] o = \h03 -> Cyc([c EXCEPT !.BC = W16(c.BC + 1)], 2)
      [] o = \h13 -> Cyc([c EXCEPT !.DE = W16(c.DE + 1)], 2)
      [] o = \h23 -> Cyc([c EXCEPT !.HL = W16(c.HL + 1)], 2)
      [] o = \h33 -> Cyc([c EXCEPT !.SP = W16(c.SP + 1)], 2)
      [] o = \h0B -> Cyc([c EXCEPT !.BC = W16(c.BC - 1)], 2)
      [] o = \h1B -> Cyc([c EXCEPT !.DE = W16(c.DE - 1)], 2)
      [] o = \h2B -> Cyc([c EXCEPT !.HL = W16(c.HL - 1)], 2)
      [] o = \h3B -> Cyc([c EXCEPT !.SP = W16(c.SP - 1)], 2)

-----------------------------------------------------------------------------
(* Rotates and shifts.  f: 0 RLC, 1 RRC, 2 RL, 3 RR, 4 SLA, 5 SRA, 6 SWAP, *)
(* 7 SRL (bits 3-5 of a 0xCB opcode).  Each returns the new value and the  *)
(* bit c shifted out (0 for SWAP, whose flag byte has no carry term).      *)

\* On the high half of the pair r.
RotHi(f, r, af) ==
    CASE f = 0 -> LET cy == And(r \div 32768, 1) IN
                  [v |-> LD_Nn_Nn(r, Or(And(r, \hFF00) * 2, cy * 256)), c |-> cy]
      [] f = 2 -> [v |-> LD_Nn_Nn(r, Or(And(r, \hFF00) * 2, CARRY_F(af) * 16)),
                   c |-> And(r \div 32768, 1)]
      [] f = 1 -> LET cy == And(r \div 256, 1) IN
                  [v |-> LD_Nn_Nn(r, Or(r \div 2, cy * 32768)), c |-> cy]
      [] f = 3 -> [v |-> LD_Nn_Nn(r, Or(r \div 2, CARRY_F(af) * 2048)),
                   c |-> And(r \div 256, 1)]
      [] f = 4 -> [v |-> LD_Nn_Nn(r, And(r, \hFF00) * 2),
                   c |-> And(r \div 32768, 1)]
      [] f = 5 -> [v |-> LD_Nn_Nn(r, Or(r \div 2, And(r, \h8000))),
                   c |-> And(r \div 256, 1)]
      [] f = 7 -> [v |-> LD_Nn_Nn(r, r \div 2), c |-> And(r \div 256, 1)]
      [] f = 6 -> [v |-> LD_Nn_Nn(r, Or(And(r, \hF000) \div 16, And(r, \h0F00) * 16)),
                   c |-> 0]

\* On the low half of the pair r.
RotLo(f, r, af) ==
    CASE f = 0 -> LET cy == And(r \div 128, 1) IN
                  [v |-> LD_nN_nN(r, Or(r * 2, cy)), c |-> cy]
      [] f = 2 -> [v |-> LD_nN_nN(r, Or(r * 2, CARRY_F(af) \div 16)),
                   c |-> And(r \div 128, 1)]
      [] f = 1 -> LET cy == And(r, 1) IN
                  [v |-> LD_nN_nN(r, Or(And(r, \h00FF) \div 2, cy * 128)), c |-> cy]
      [] f = 3 -> [v |-> LD_nN_nN(r, Or(And(r, \h00FF) \div 2, CARRY_F(af) * 8)),
                   c |-> And(r, 1)]
      [] f = 4 -> [v |-> LD_nN_nN(r, r * 2), c |-> And(r \div 128, 1)]
      [] f = 5 -> [v |-> LD_nN_nN(r, Or(And(r, \h00FF) \div 2, And(r, \h0080))),
                   c |-> And(r, 1)]
      [] f = 7 -> [v |-> LD_nN_nN(r, And(r, \h00FF) \div 2), c |-> And(r, 1)]
      [] f = 6 -> [v |-> LD_nN_nN(r, Or(And(r, \h00F0) \div 16, And(r, \h000F) * 16)),
                   c |-> 0]

\* On the byte b read from (HL); v is the value handed to writeByte.
RotMem(f, b, af) ==
    CASE f = 0 -> LET cy == And(b \div 128, 1) IN [v |-> Or(b * 2, cy), c |-> cy]
      [] f = 2 -> [v |-> Or(b * 2, CARRY_F(af) \div 16), c |-> And(b \div 128, 1)]
      [] f = 1 -> LET cy == And(b, 1) IN [v |-> Or(b \div 2, cy * 128), c |-> cy]
      [] f = 3 -> [v |-> Or(b \div 2, CARRY_F(af) * 8), c |-> And(b, 1)]
      [] f = 4 -> [v |-> b * 2, c |-> And(b \div 128, 1)]
      [] f = 5 -> [v |-> Or(b \div 2, And(b, \h0080)), c |-> And(b, 1)]
      [] f = 7 -> [v |-> b \div 2, c |-> And(b, 1)]
      [] f = 6 -> [v |-> Or(And(b, \hF0) \div 16, And(b, \h0F) * 16), c |-> 0]

\* A variant of ExecRotA that leaves the carry flag clear.
ExecRotA_NoCarry(c, o) ==
    LET f == o \div 8
        x == RotHi(f, c.AF, c.AF)
    IN  Cyc([c EXCEPT !.AF = SetF(W16(x.v), 0)], 1)
\* RLCA (0x07), RLA (0x17), RRCA (0x0F), RRA (0x1F): no zero flag.
ExecRotA(c, o) ==
    LET f == o \div 8
        x == RotHi(f, c.AF, c.AF)
    IN  Cyc([c EXCEPT !.AF = SetF(W16(x.v), x.c * 16)], 1)

-----------------------------------------------------------------------------
(* The 0xCB page.  cyclesDelta is 1 after the second fetch and every case  *)
(* adds to it.                                                             *)

CBRot(c, n) ==
    LET f == n \div 8
        i == n % 8
    IN
    IF i = 6
    THEN LET x  == RotMem(f, readByte(c.mem, c.HL), c.AF)
             m1 == writeByte(c.mem, c.HL, x.v)
         IN  Cyc([c EXCEPT
                    !.mem = m1,
                    !.AF = SetF(c.AF, Or(ZERO_S(readByte(m1, c.HL)), x.c * 16))],
                 c.cyclesDelta + 4)
    ELSE LET r  == Pair(i)
             x  == IF IsHi(i) THEN RotHi(f, c[r], c.AF) ELSE RotLo(f, c[r], c.AF)
             c1 == [c EXCEPT ![r] = W16(x.v)]
             z  == IF IsHi(i) THEN ZERO_S(And(c1[r], \hFF00))
                              ELSE ZERO_S(And(c1[r], \h00FF))
         IN  Cyc([c1 EXCEPT !.AF = SetF(c1.AF, Or(z, x.c * 16))],
                 c.cyclesDelta + 2)

\* The mask of bit b in operand i of a pair, or in a byte for (HL).
\* A variant of BitMask that takes the bit from the low half of the pair for
\* every operand.
BitMask_Low(b, i) == 2 ^ b + 0 * i
BitMask(b, i) == IF i # 6 /\ IsHi(i) THEN 256 * (2 ^ b) ELSE 2 ^ b

CBBit(c, n) ==
    LET b == (n - 64) \div 8
        i == n % 8
        t == IF i = 6 THEN And(readByte(c.mem, c.HL), BitMask(b, i))
                      ELSE And(c[Pair(i)], BitMask(b, i))
    IN  Cyc([c EXCEPT !.AF = SetF(c.AF, Or(Or(ZERO_S(t), HALF_V), CARRY_F(c.AF)))],
            c.cyclesDelta + RegCost(i, 2, 4))

CBRes(c, n) ==
    LET b == (n - 128) \div 8
        i == n % 8
    IN  IF i = 6
        THEN Cyc([c EXCEPT !.mem = writeByte(c.mem, c.HL,
                     And(readByte(c.mem, c.HL), 255 - BitMask(b, i)))],
                 c.cyclesDelta + 4)
        ELSE Cyc([c EXCEPT ![Pair(i)] = And(c[Pair(i)], 65535 - BitMask(b, i))],
                 c.cyclesDelta + 2)

CBSet(c, n) ==
    LET b == (n - 192) \div 8
        i == n % 8
    IN  IF i = 6
        THEN Cyc([c EXCEPT !.mem = writeByte(c.mem, c.HL,
                     Or(readByte(c.mem, c.HL), BitMask(b, i)))],
                 c.cyclesDelta + 4)
        ELSE Cyc([c EXCEPT ![Pair(i)] = Or(c[Pair(i)], BitMask(b, i))],
                 c.cyclesDelta + 2)

\* case 0xCB: n = readOp(); cyclesDelta = 1; switch (n).
ExecCB(c) ==
    LET n  == opByte(c)
        c1 == Cyc(advPC(c), 1)
    IN  CASE n < 64  -> CBRot(c1, n)
          [] n < 128 -> CBBit(c1, n)
          [] n < 192 -> CBRes(c1, n)
          [] OTHER   -> CBSet(c1, n)

-----------------------------------------------------------------------------
(* DAA, CPL, CCF, SCF, DI, EI.                                             *)

DAA(c) ==
    LET af == c.AF
        n0 == IF HALF_F(af) = HALF_V
                 \/ (SUB_F(af) = 0 /\ And(af, \h0F00) > \h0900) THEN 6 ELSE 0
        n  == IF CARRY_F(af) = CARRY_V
                 \/ (SUB_F(af) = 0 /\ And(af, \hFF00) > \h9900)
              THEN Or(n0, \h60) ELSE n0
        a  == W16(LD_Nn_n(af, (af \div 256) + (IF SUB_F(af) = 0 THEN n ELSE -n)))
    IN  Cyc([c EXCEPT !.AF = SetF(a, Or(Or(ZERO_S(And(a, \hFF00)), SUB_F(a)),
                                        IF n > 6 THEN CARRY_V ELSE 0))], 1)

ExecFlagOps(c, o) ==
    CASE o = \h27 -> DAA(c)
      [] o = \h2F ->
           LET a == W16(LD_Nn_Nn(c.AF, -c.AF - 1)) IN
           Cyc([c EXCEPT !.AF = SetF(a, Or(Or(Or(ZERO_F(a), SUB_V), HALF_V),
                                           CARRY_F(a)))], 1)
      [] o = \h3F ->
           Cyc([c EXCEPT !.AF = SetF(c.AF, Or(ZERO_F(c.AF),
                   IF CARRY_F(c.AF) = 0 THEN CARRY_V ELSE 0))], 1)
      [] o = \h37 ->
           Cyc([c EXCEPT !.AF = SetF(c.AF, Or(ZERO_F(c.AF), CARRY_V))], 1)
      [] o = \hF3 -> Cyc([c EXCEPT !.disableIRQ = 2], 1)
      [] o = \hFB -> Cyc([c EXCEPT !.enableIRQ = 2], 1)

-----------------------------------------------------------------------------
(* Jumps, calls, restarts and returns.                                     *)

\* A variant of Cond whose NC and C test the half-carry flag.
Cond_Half(c, o) ==
    LET cc == (o \div 8) % 4 IN
    CASE cc = 0 -> ZERO_F(c.AF) = 0
      [] cc = 1 -> ZERO_F(c.AF) = ZERO_V
      [] cc = 2 -> HALF_F(c.AF) = 0
      [] cc = 3 -> HALF_F(c.AF) = HALF_V

\* The condition of opcode o: bits 3-4 select NZ, Z, NC, C.
Cond(c, o) ==
    LET cc == (o \div 8) % 4 IN
    CASE cc = 0 -> ZERO_F(c.AF) = 0
      [] cc = 1 -> ZERO_F(c.AF) = ZERO_V
      [] cc = 2 -> CARRY_F(c.AF) = 0
      [] cc = 3 -> CARRY_F(c.AF) = CARRY_V

ExecJump(c, o) ==
    CASE o = \hC3 -> Cyc([advPC2(c) EXCEPT !.PC = nnWord(c)], 4)
      [] o \in {\hC2, \hCA, \hD2, \hDA} ->
           LET nn == nnWord(c)
               c1 == advPC2(c)
           IN  IF Cond(c1, o) THEN Cyc([c1 EXCEPT !.PC = nn], 4) ELSE Cyc(c1, 3)
      [] o = \hE9 -> Cyc([c EXCEPT !.PC = c.HL], 1)
      \* JR n: PC += (int8_t)readOp(), the call evaluated before PC is read
      [] o = \h18 ->
           LET sn == S8(opByte(c))
               c1 == advPC(c)
           IN  Cyc([c1 EXCEPT !.PC = W16(c1.PC + sn)], 3)
      [] o \in {\h20, \h28, \h30, \h38} ->
           LET n  == opByte(c)
               c1 == advPC(c)
           IN  IF Cond(c1, o) THEN Cyc([c1 EXCEPT !.PC = W16(c1.PC + S8(n))], 3)
               ELSE Cyc(c1, 2)

ExecCall(c, o) ==
    CASE o = \hCD ->
           LET nn == nnWord(c)
               c1 == advPC2(c)
           IN  Cyc([pushStack(c1, c1.PC) EXCEPT !.PC = nn], 6)
      [] o \in {\hC4, \hCC, \hD4, \hDC} ->
           LET nn == nnWord(c)
               c1 == advPC2(c)
           IN  IF Cond(c1, o) THEN Cyc([pushStack(c1, c1.PC) EXCEPT !.PC = nn], 6)
               ELSE Cyc(c1, 3)
      \* RST n: 0xC7, 0xCF, ..., 0xFF jump to 0x00, 0x08, ..., 0x38
      [] o \in {\hC7, \hCF, \hD7, \hDF, \hE7, \hEF, \hF7, \hFF} ->
           Cyc([pushStack(c, c.PC) EXCEPT !.PC = o - 199], 4)
      [] o = \hC9 -> Cyc([popAdv(c) EXCEPT !.PC = popWord(c)], 4)
      [] o \in {\hC0, \hC8, \hD0, \hD8} ->
           IF Cond(c, o) THEN Cyc([popAdv(c) EXCEPT !.PC = popWord(c)], 5)
           ELSE Cyc(c, 2)
      \* RETI
      [] o = \hD9 ->
           Cyc([popAdv(c) EXCEPT !.PC = popWord(c), !.enableIRQ = 2], 4)

-----------------------------------------------------------------------------
(* switch (op): c is the context after op = readOp().                      *)

\* The opcodes with no case: the default branch prints and calls
\* stopAndRestart(), which never returns.
Unimplemented ==
    {\hD3, \hDB, \hDD, \hE3, \hE4, \hEB, \hEC, \hED, \hF4, \hFC, \hFD}

Exec(c, o) ==
    CASE o \in {\h00, \h10, \h76} -> ExecMisc(c, o)
      [] o \in {\h06, \h0E, \h16, \h1E, \h26, \h2E, \h3E} ->
           LD_r_n(c, (o - 6) \div 8)
      [] o >= 64 /\ o < 128 -> LD_r1_r2(c, (o - 64) \div 8, o % 8)
      [] o \in {\h36, \h0A, \h1A, \hFA, \h02, \h12, \hEA, \hF2, \hE2, \hE0,
                \hF0, \h3A, \h32, \h22, \h2A} -> ExecLoadA(c, o)
      [] o \in {\h01, \h11, \h21, \h31, \hF9, \hF8, \h08} -> ExecLoad16(c, o)
      [] o \in {\hF5, \hC5, \hD5, \hE5, \hF1, \hC1, \hD1, \hE1} -> ExecStack(c, o)
      [] o >= 128 /\ o < 192 -> ExecAlu(c, o)
      [] o \in {\hC6, \hCE, \hD6, \hDE, \hE6, \hEE, \hF6, \hFE} -> ExecAluImm(c, o)
      [] o \in {\h04, \h0C, \h14, \h1C, \h24, \h2C, \h34, \h3C} ->
           IncDec8(c, (o - 4) \div 8, TRUE)
      [] o \in {\h05, \h0D, \h15, \h1D, \h25, \h2D, \h35, \h3D} ->
           IncDec8(c, (o - 5) \div 8, FALSE)
      [] o \in {\h09, \h19, \h29, \h39, \hE8, \h03, \h13, \h23, \h33,
                \h0B, \h1B, \h2B, \h3B} -> ExecArith16(c, o)
      [] o \in {\h07, \h17, \h0F, \h1F} -> ExecRotA(c, o)
      [] o = \hCB -> ExecCB(c)
      [] o \in {\h27, \h2F, \h3F, \h37, \hF3, \hFB} -> ExecFlagOps(c, o)
      [] o \in {\hC3, \hC2, \hCA, \hD2, \hDA, \hE9, \h18, \h20, \h28, \h30,
                \h38} -> ExecJump(c, o)
      [] o \in {\hCD, \hC4, \hCC, \hD4, \hDC, \hC7, \hCF, \hD7, \hDF, \hE7,
                \hEF, \hF7, \hFF, \hC9, \hC0, \hC8, \hD0, \hD8, \hD9} ->
           ExecCall(c, o)
      [] OTHER -> [c EXCEPT !.stopped = TRUE]

-----------------------------------------------------------------------------
(* CPU::cpuStep.                                                           *)

\* interrupt = readByte(MEM_IRQ_FLAG) & readByte(MEM_IRQ_ENABLE) & 0x1F
Pending(m) ==
    And(And(readByte(m, MEM_IRQ_FLAG), readByte(m, MEM_IRQ_ENABLE)), \h1F)

\* A variant of Dispatch whose chain tests the sources from Joypad down.
Dispatch_Highest(c, interrupt) ==
    LET b  == CHOOSE x \in 0..4 :
                  /\ And(interrupt, IrqMask(x)) = IrqMask(x)
                  /\ \A y \in (x + 1)..4 : And(interrupt, IrqMask(y)) # IrqMask(y)
        m1 == writeByte(c.mem, MEM_IRQ_FLAG,
                        And(readByte(c.mem, MEM_IRQ_FLAG), 255 - IrqMask(b)))
        c1 == pushStack([c EXCEPT !.mem = m1], c.PC)
    IN  [c1 EXCEPT !.PC = IrqVector(b), !.disp = b]

\* A variant of Dispatch that leaves the bit of the source set in IF.
Dispatch_KeepIF(c, interrupt) ==
    LET b  == CHOOSE x \in 0..4 :
                  /\ And(interrupt, IrqMask(x)) = IrqMask(x)
                  /\ \A y \in 0..(x - 1) : And(interrupt, IrqMask(y)) # IrqMask(y)
        c1 == pushStack(c, c.PC)
    IN  [c1 EXCEPT !.PC = IrqVector(b), !.disp = b]

\* A dispatch that pushes the address after the one in PC.
Dispatch_SkipOne(c, interrupt) ==
    LET b  == CHOOSE x \in 0..4 :
                  /\ And(interrupt, IrqMask(x)) = IrqMask(x)
                  /\ \A y \in 0..(x - 1) : And(interrupt, IrqMask(y)) # IrqMask(y)
        m1 == writeByte(c.mem, MEM_IRQ_FLAG,
                        And(readByte(c.mem, MEM_IRQ_FLAG), 255 - IrqMask(b)))
        c1 == pushStack([c EXCEPT !.mem = m1], (c.PC + 1) % 65536)
    IN  [c1 EXCEPT !.PC = IrqVector(b), !.disp = b]

\* The else-if chain: the first source, from VBlank on, whose bit is set in
\* interrupt.  Its bit is cleared in IF, PC is pushed, PC becomes its vector.
Dispatch(c, interrupt) ==
    LET b  == CHOOSE x \in 0..4 :
                  /\ And(interrupt, IrqMask(x)) = IrqMask(x)
                  /\ \A y \in 0..(x - 1) : And(interrupt, IrqMask(y)) # IrqMask(y)
        m1 == writeByte(c.mem, MEM_IRQ_FLAG,
                        And(readByte(c.mem, MEM_IRQ_FLAG), 255 - IrqMask(b)))
        c1 == pushStack([c EXCEPT !.mem = m1], c.PC)
    IN  [c1 EXCEPT !.PC = IrqVector(b), !.disp = b]

\* A variant of Service that dispatches whenever an interrupt is pending,
\* also on waking from HALT with IME clear.
Service_Always(c) ==
    IF c.IME \/ c.halted
    THEN LET interrupt == Pending(c.mem) IN
         IF interrupt # 0
         THEN [Dispatch([c EXCEPT !.IME = FALSE], interrupt) EXCEPT !.halted = FALSE]
         ELSE c
    ELSE c

\* "Check for interrupts": disp is the source dispatched, -1 if none.
Service(c) ==
    IF c.IME \/ c.halted
    THEN LET interrupt == Pending(c.mem) IN
         IF interrupt # 0
         THEN LET c1 == IF c.IME /\ ~c.halted
                        THEN Dispatch([c EXCEPT !.IME = FALSE], interrupt)
                        ELSE c
              IN  [c1 EXCEPT !.halted = FALSE]
         ELSE c
    ELSE c

\* A variant of HaltedStep that returns without charging the cycle.
HaltedStep_NoCharge(c) == [c EXCEPT !.cyclesDelta = 1]

\* "Check if halted": one cycle is charged and the step returns.
HaltedStep(c) ==
    [c EXCEPT !.cyclesDelta = 1, !.totalCycles = c.totalCycles + 1]

\* A commit without the delay: a counter that is set takes effect at once.
Commit_Eager(c) ==
    LET i1 == IF c.enableIRQ # 0 THEN TRUE ELSE c.IME
        i2 == IF c.disableIRQ # 0 THEN FALSE ELSE i1
    IN  [c EXCEPT !.totalCycles = c.totalCycles + c.cyclesDelta,
                  !.enableIRQ = 0, !.disableIRQ = 0, !.IME = i2]

\* A commit that adds the cycles and leaves the two counters as they are.
Commit_NoCount(c) == [c EXCEPT !.totalCycles = c.totalCycles + c.cyclesDelta]

\* After the switch: the cycle sum, then the EI and DI delay counters.
Commit(c) ==
    LET e  == IF c.enableIRQ # 0 THEN c.enableIRQ - 1 ELSE 0
        i1 == IF c.enableIRQ # 0 /\ e = 0 THEN TRUE ELSE c.IME
        d  == IF c.disableIRQ # 0 THEN c.disableIRQ - 1 ELSE 0
        i2 == IF c.disableIRQ # 0 /\ d = 0 THEN FALSE ELSE i1
    IN  [c EXCEPT !.totalCycles = c.totalCycles + c.cyclesDelta,
                  !.enableIRQ = e, !.disableIRQ = d, !.IME = i2]

\* A variant of AfterSwitch whose default branch breaks out of the switch
\* as every other case does.
AfterSwitch_Break(x) == Commit([x EXCEPT !.stopped = FALSE])

\* After the switch.  The default branch never gets here.
AfterSwitch(x) == IF x.stopped THEN x ELSE Commit(x)

\* op = readOp(); switch (op); and the part after the switch.
FetchExec(c) == AfterSwitch(Exec(advPC(c), opByte(c)))

\* The step from "Check if halted" on, s being the context at that point.
AfterService(s) == IF s.halted THEN HaltedStep(s) ELSE FetchExec(s)

\* The whole of an enabled step on the context c.
StepCtx(c) == AfterService(Service(c))

\* A variant of timerLoop that ticks the timer once a step.
timerLoop_Once(ticks, delta) == ticks + 1

\* "Update timer": GBTimer::timerStep() is called cyclesDelta times; ticks
\* is the number of calls made so far.
timerLoop(ticks, delta) == ticks + delta

\* What the call before this one did, as obs keeps it.
Last == [kind |-> obs.kind, op |-> op, IME |-> obs.pre.IME, SP |-> obs.pre.SP,
         PC |-> obs.pre.PC, disp |-> obs.svc.disp, svcIME |-> obs.svc.IME]

\* The variables after an enabled step that reached "Check if halted" in
\* the context s and ended in the context r.
Update(s, r) ==
    /\ AF' = r.AF /\ BC' = r.BC /\ DE' = r.DE /\ HL' = r.HL
    /\ SP' = r.SP /\ PC' = r.PC
    /\ IME' = r.IME /\ halted' = r.halted
    /\ enableIRQ' = r.enableIRQ /\ disableIRQ' = r.disableIRQ
    /\ cyclesDelta' = r.cyclesDelta /\ totalCycles' = r.totalCycles
    /\ mem' = r.mem
    /\ stopped' = r.stopped
    /\ op' = IF s.halted THEN op ELSE opByte(s)
    /\ obs' = [kind  |-> IF s.halted THEN "halted"
                         ELSE IF r.stopped THEN "stop" ELSE "exec",
               pre   |-> Ctx,
               svc   |-> s,
               post  |-> r,
               ticks |-> timerTicks' - timerTicks,
               idle  |-> IF s.halted THEN obs.idle + 1 ELSE 0,
               last  |-> Last,
               from  |-> IF s.disp # -1 THEN [PC |-> PC, SP |-> SP]
                         ELSE obs.from]

\* A variant of Disabled under which a disabled CPU steps as well.
Disabled_Never == FALSE /\ cpuEnabled

\* "if (!cpuEnabled) return;" at the head of cpuStep.
Disabled == ~cpuEnabled

\* One call of cpuStep.  No call returns once stopAndRestart() has been
\* entered; limit bounds totalCycles.
cpuStep(limit) ==
    /\ ~stopped
    /\ totalCycles < limit
    /\ IF Disabled
       THEN /\ obs' = [kind |-> "off", pre |-> Ctx, svc |-> Ctx, post |-> Ctx,
                       ticks |-> 0, idle |-> 0, last |-> Last,
                       from |-> obs.from]
            /\ UNCHANGED << AF, BC, DE, HL, SP, PC, IME, halted, enableIRQ,
                            disableIRQ, cyclesDelta, totalCycles, cpuEnabled,
                            op, mem, cart, timerTicks, stopped, irqCount,
                            mbc, mbcLast >>
       ELSE /\ timerTicks' = timerLoop(timerTicks, cyclesDelta)
            /\ Update(Service(Ctx), StepCtx(Ctx))
            /\ UNCHANGED << cpuEnabled, cart, irqCount, mbc, mbcLast >>

-----------------------------------------------------------------------------
(* The environment: the driver that switches the CPU on, and the devices   *)
(* (timer, PPU, serial, joypad) that set bits of IF between two steps.     *)

Enable ==
    /\ ~cpuEnabled
    /\ cpuEnabled' = TRUE
    /\ UNCHANGED << AF, BC, DE, HL, SP, PC, IME, halted, enableIRQ, disableIRQ,
                    cyclesDelta, totalCycles, op, mem, cart, timerTicks,
                    stopped, irqCount, obs, mbc, mbcLast >>

\* The sets of IF bits devices raise between two steps.  A request the
\* timer makes during the ticks at the start of a step reaches IF before
\* that step samples it, as a request made just before the step does.
Requests == {\h01, \h02, \h04, \h08, \h10, \h03, \h18}

RequestInterrupt ==
    /\ cpuEnabled
    /\ ~stopped
    /\ irqCount < MaxIrq
    /\ totalCycles < MaxCycles
    /\ \E bits \in Requests :
          mem' = writeByte(mem, MEM_IRQ_FLAG,
                           Or(readByte(mem, MEM_IRQ_FLAG), bits))
    /\ irqCount' = irqCount + 1
    /\ UNCHANGED << AF, BC, DE, HL, SP, PC, IME, halted, enableIRQ, disableIRQ,
                    cyclesDelta, totalCycles, cpuEnabled, op, cart, timerTicks,
                    stopped, obs, mbc, mbcLast >>

RunStep == cpuStep(MaxCycles)

-----------------------------------------------------------------------------
(* Step-protocol runs: from reset, a program that writes IE and then runs  *)
(* a body over NOP, EI, DI and HALT; every interrupt vector holds RETI.    *)

BodyOps  == {\h00, \hFB, \hF3, \h76}
IEValues == {\h1F, \h0A}

\* LD A,ie ; LDH (0xFF),A
Prologue(ie) == << \h3E, ie, \hE0, \hFF >>

Programs ==
    { [prog |-> Prologue(ie) \o body, isr |-> << \hD9 >>, fill |-> \h00] :
        ie \in IEValues, body \in [1..BodyLen -> BodyOps] }

\* obs before the first call of cpuStep.
NoCall == [kind |-> "none", pre |-> Ctx, svc |-> Ctx, post |-> Ctx,
           ticks |-> 0, idle |-> 0,
           last |-> [kind |-> "none", op |-> 0, IME |-> FALSE, SP |-> 0,
                     PC |-> 0, disp |-> -1, svcIME |-> FALSE],
           from |-> [PC |-> 0, SP |-> 0]]

\* A variant of Reset with every register and counter zero, the values
\* the statics would have without initialisers.
Reset_Zero ==
    /\ AF = 0 /\ BC = 0 /\ DE = 0 /\ HL = 0 /\ SP = 0 /\ PC = 0
    /\ IME = FALSE /\ halted = FALSE
    /\ enableIRQ = 0 /\ disableIRQ = 0
    /\ cyclesDelta = 0 /\ totalCycles = 0
    /\ cpuEnabled = FALSE
    /\ op = 0
\* The static initialisers of CPU.cpp.
Reset ==
    /\ AF = \h01B0 /\ BC = \h0013 /\ DE = \h00D8 /\ HL = \h014D
    /\ SP = \hFFFE /\ PC = PC_START
    /\ IME = FALSE /\ halted = FALSE
    /\ enableIRQ = 0 /\ disableIRQ = 0
    /\ cyclesDelta = 0 /\ totalCycles = 0
    /\ cpuEnabled = FALSE
    /\ op = 0

Init ==
    /\ Reset
    /\ mem = << >>
    /\ cart \in Programs
    /\ timerTicks = 0
    /\ stopped = FALSE
    /\ irqCount = 0
    /\ obs = NoCall
    /\ mbc = MBC1_new(0) /\ mbcLast = NoAccess

Next == Enable \/ RequestInterrupt \/ RunStep

Spec == Init /\ [][Next]_vars

-----------------------------------------------------------------------------
(* Single-instruction runs: any opcode (any second byte after 0xCB) on     *)
(* sampled register files, the CPU enabled and not halted.                 *)

InstrAF ==
    { a * 256 + f : a \in {\h00, \h0F, \h90, \hFF},
                    f \in {\h00, \h10, \h60, \h80, \hF0} }
        \cup {\h01B0}

\* The register file of reset, and one whose pairs point into RAM.
InstrRegs ==
    { [BC |-> \h0013, DE |-> \h00D8, HL |-> \h014D, SP |-> \hFFFE],
      [BC |-> \hC0FF, DE |-> \h80F0, HL |-> \hC10F, SP |-> \hD002] }

OperandBytes == {\h01, \hFE}

InstrPrograms ==
    { [prog |-> << o, b1, \hC1 >>, isr |-> << \hD9 >>, fill |-> \h00] :
        o \in 0..255 \ {\hCB}, b1 \in OperandBytes }
    \cup
    { [prog |-> << \hCB, n, \hC1 >>, isr |-> << \hD9 >>, fill |-> \h00] :
        n \in 0..255 }

\* Two bytes on the stack and one at (HL), as earlier stores left them.
InstrMem(r) ==
    writeByte(writeByte(writeByte(<< >>, r.HL, \h8F), W16(r.SP + 1), \h12),
              r.SP, \h3F)

InitInstr ==
    /\ AF \in InstrAF
    /\ \E r \in InstrRegs :
          /\ BC = r.BC /\ DE = r.DE /\ HL = r.HL /\ SP = r.SP
          /\ mem = InstrMem(r)
    /\ PC = PC_START
    /\ IME = FALSE /\ halted = FALSE
    /\ enableIRQ = 0 /\ disableIRQ = 0
    /\ cyclesDelta = PriorCycles /\ totalCycles = PriorCycles
    /\ cpuEnabled = TRUE
    /\ op = 0
    /\ cart \in InstrPrograms
    /\ timerTicks = 0
    /\ stopped = FALSE
    /\ irqCount = 0
    /\ obs = NoCall
    /\ mbc = MBC1_new(0) /\ mbcLast = NoAccess

InstrStep == cpuStep(MaxInstrCycles)

NextInstr == InstrStep

SpecInstr == InitInstr /\ [][NextInstr]_vars

-----------------------------------------------------------------------------
(* Interrupt runs: a program that enables the interrupts of ie and jumps   *)
(* back to 0x0100, where a NOP is, with the registers as reset left them;  *)
(* every interrupt vector holds one instruction of a sample.  Two more     *)
(* Three more programs use A = 0x01 of reset as ie: one runs EI again once *)
(* IME is set, one halts, one raises VBlank itself; their handlers are     *)
(* NOP, RETI, NOP ; RETI and EI ; NOP ; RETI.                              *)

\* NOP ; LD A,ie ; LDH (0xFF),A ; EI ; JP 0x0100, and at the vectors NOP,
\* INC A, HALT, RET, RETI, PUSH AF or EI.
\* LDH (0xFF),A ; EI ; NOP ; EI, LDH (0xFF),A ; EI ; HALT ; NOP, and
\* EI ; LDH (0xFF),A ; LDH (0x0F),A.
IrqPrograms ==
    { [prog |-> << \h00, \h3E, ie, \hE0, \hFF, \hFB, \hC3, \h00, \h01 >>,
       isr  |-> << o >>, fill |-> \h00] :
        ie \in {\h01, \h1F}, o \in {\h00, \h3C, \h76, \hC9, \hD9, \hF5, \hFB} }
    \cup
    { [prog |-> p, isr |-> h, fill |-> \h00] :
        p \in { << \hE0, \hFF, \hFB, \h00, \hFB >>,
                << \hE0, \hFF, \hFB, \h76, \h00 >>,
                << \hFB, \hE0, \hFF, \hE0, \h0F >> },
        h \in { << \h00 >>, << \hD9 >>, << \h00, \hD9 >>,
                << \hFB, \h00, \hD9 >> } }

InitIrq ==
    /\ Reset
    /\ mem = << >>
    /\ cart \in IrqPrograms
    /\ timerTicks = 0
    /\ stopped = FALSE
    /\ irqCount = 0
    /\ obs = NoCall
    /\ mbc = MBC1_new(0) /\ mbcLast = NoAccess

SpecIrq == InitIrq /\ [][Next]_vars

-----------------------------------------------------------------------------
(* Stack runs: two instructions in a row.  PUSH rr ; POP qq and CALL or   *)
(* RST ; RET with the stack pointer at the edges of every region of the    *)
(* address map, RLCA ; RRCA on every accumulator and every flag state,     *)
(* SWAP r ; SWAP r on every operand and every value, LD rr,nn and          *)
(* LD (nn),SP with nn in every region of the address map.                  *)

\* Cycles after which no further call is made: CALL nn costs 6.
MaxStackCycles == 7

\* Stack pointers that put the two stack bytes before, across and after
\* the first address of every region of the address map, and the stack
\* pointer of reset.
StackPointers ==
    LET RegionStarts == {\h0000, \h4000, \h8000, \hA000, \hC000, \hE000,
                         \hFE00, \hFEA0, \hFF00, \hFF80, \hFFFF}
    IN  { W16(b + d) : b \in RegionStarts, d \in 0..2 } \cup {\hD002, \hFFFE}

StackWords == {\h0000, \h00FF, \h1234, \h8001, \hFF00, \hFFFF}

StackProgram == [prog |-> << \hC5, \hD1 >>, isr |-> << \hD9 >>, fill |-> \h00]

InitStack ==
    /\ \/ \* PUSH rr ; POP qq
          /\ \E push \in {\hC5, \hD5, \hE5}, pop \in {\hC1, \hD1, \hE1} :
                cart = [StackProgram EXCEPT !.prog = << push, pop >>]
          /\ AF = \h01B0 /\ DE = \h00D8 /\ HL = \h014D
          /\ BC \in StackWords
          /\ SP \in StackPointers
          /\ mem = << >>
       \/ \* CALL nn, CALL cc,nn or RST n, and RET wherever it lands
          /\ \E o \in {\hCD, \hC4, \hCC, \hD4, \hDC},
                nn \in {\h0150, \h1234, \h7FFF} :
                cart = [prog |-> << o, nn % 256, nn \div 256 >>,
                        isr |-> << \hD9 >>, fill |-> \hC9]
             \/ \E k \in 0..7 :
                cart = [prog |-> << \hC7 + 8 * k >>,
                        isr |-> << \hD9 >>, fill |-> \hC9]
          /\ AF \in {\h0100, \h01F0}
          /\ BC = \h0013 /\ DE = \h00D8 /\ HL = \h014D
          /\ SP \in StackPointers
          /\ mem = << >>
       \/ \* RLCA ; RRCA, with a copy of AF kept in BC
          /\ cart = [StackProgram EXCEPT !.prog = << \h07, \h0F >>]
          /\ \E a \in 0..255, f \in 0..15 : AF = 256 * a + 16 * f
          /\ BC = AF
          /\ DE = \h00D8 /\ HL = \h014D /\ SP = \hFFFE
          /\ mem = << >>
       \/ \* SWAP r ; SWAP r, with n in every 8-bit register and at (HL)
          /\ \E r \in 0..7, n \in 0..255 :
                /\ cart = [StackProgram EXCEPT
                              !.prog = << \hCB, \h30 + r, \hCB, \h30 + r >>]
                /\ AF \in {256 * n, 256 * n + \hF0}
                /\ BC = 257 * n /\ DE = 257 * n
                /\ HL = IF r = 6 THEN \hC000 ELSE 257 * n
                /\ mem = writeByte(<< >>, \hC000, n)
          /\ SP = \hFFFE
       \/ \* LD BC,nn / LD DE,nn / LD HL,nn / LD SP,nn / LD (nn),SP
          /\ \E o \in {\h01, \h11, \h21, \h31, \h08},
                nn \in {\h1234, \h00FF, \h7FFF, \h8000, \hA0FF, \hC000,
                        \hDFFF, \hFE9F, \hFF80, \hFFFE, \hFFFF} :
                cart = [StackProgram EXCEPT
                           !.prog = << o, nn % 256, nn \div 256 >>]
          /\ AF = \h01B0 /\ BC = \h0013 /\ DE = \h00D8 /\ HL = \h014D
          /\ SP \in StackWords
          /\ mem = << >>
    /\ PC = PC_START
    /\ IME = FALSE /\ halted = FALSE
    /\ enableIRQ = 0 /\ disableIRQ = 0
    /\ cyclesDelta = 0 /\ totalCycles = 0
    /\ cpuEnabled = TRUE
    /\ op = 0
    /\ timerTicks = 0
    /\ stopped = FALSE
    /\ irqCount = 0
    /\ obs = NoCall
    /\ mbc = MBC1_new(0) /\ mbcLast = NoAccess

NextStack == cpuStep(MaxStackCycles)

SpecStack == InitStack /\ [][NextStack]_vars

-----------------------------------------------------------------------------
(* Arithmetic runs: one instruction of AluOps on sampled accumulators and  *)
(* operands; LDHL SP,e with every e and SP around every carry; INC and DEC *)
(* with every value of the operand; ADD HL,rr around every carry.          *)

\* Cycles after which no further call is made.
MaxAluCycles == 1

\* LDHL SP,e; ADD, ADC, SUB, SBC, AND, XOR, OR, CP with a register, (HL) or
\* an immediate byte; INC r, DEC r; ADD HL,rr.
AluOps ==
    {\hF8} \cup (128..191)
           \cup {\hC6, \hCE, \hD6, \hDE, \hE6, \hEE, \hF6, \hFE}
           \cup { 8 * i + d : i \in 0..7, d \in {4, 5} }
           \cup {\h09, \h19, \h29, \h39}

\* The instruction o with the byte n after it; n is also in B, C, D, E and
\* at (HL) = 0xC000, or in H and L when one of them is the operand.  INC
\* and DEC find n in A as well; ADD HL,rr finds one word in BC, DE and SP.
InitAlu ==
    /\ \E o \in AluOps, n \in 0..255 :
          LET Bytes == {\h00, \h01, \h0E, \h0F, \h10, \h11, \h55, \h7F, \h80,
                        \h81, \h8F, \hAA, \hF0, \hF1, \hFE, \hFF}
              Words == {\h0000, \h0001, \h00FF, \h0100, \h0800, \h0FFF,
                        \h1000, \h1001, \h7FFF, \h8000, \h8001, \hF000,
                        \hF001, \hF800, \hFFFE, \hFFFF}
              i     == IF o < 64 THEN o \div 8 ELSE o % 8
          IN
          /\ cart = [prog |-> << o, n >>, isr |-> << \hD9 >>, fill |-> \h00]
          /\ mem = writeByte(<< >>, \hC000, n)
          /\ CASE o = \hF8 ->
                  /\ AF \in {\h0100, \h01F0}
                  /\ BC = 257 * n /\ DE = 257 * n /\ HL = \hC000
                  /\ SP \in {\h0000, \h0001, \h000F, \h0080, \h00FF, \h0100,
                             \h0FFF, \h7FFF, \h8000, \hD002, \hFF80, \hFFF0,
                             \hFFFE, \hFFFF}
               [] o \in {\h09, \h19, \h29, \h39} ->
                  /\ n = 0
                  /\ AF \in {\h0100, \h0170, \h0180, \h01F0}
                  /\ HL \in Words
                  /\ \E rr \in Words : BC = rr /\ DE = rr /\ SP = rr
               [] o < 64 /\ o % 8 \in {4, 5} ->
                  /\ \E f \in {\h00, \h10, \hE0, \hF0} : AF = 256 * n + f
                  /\ BC = 257 * n /\ DE = 257 * n
                  /\ HL = IF i \in {4, 5} THEN 257 * n ELSE \hC000
                  /\ SP = \hFFFE
               [] OTHER ->
                  /\ n \in Bytes
                  /\ \E a \in Bytes, f \in {\h00, \h10, \hF0} : AF = 256 * a + f
                  /\ BC = 257 * n /\ DE = 257 * n
                  /\ HL = IF i \in {4, 5} THEN 257 * n ELSE \hC000
                  /\ SP = \hFFFE
    /\ PC = PC_START
    /\ IME = FALSE /\ halted = FALSE
    /\ enableIRQ = 0 /\ disableIRQ = 0
    /\ cyclesDelta = 0 /\ totalCycles = 0
    /\ cpuEnabled = TRUE
    /\ op = 0
    /\ timerTicks = 0
    /\ stopped = FALSE
    /\ irqCount = 0
    /\ obs = NoCall
    /\ mbc = MBC1_new(0) /\ mbcLast = NoAccess

NextAlu == cpuStep(MaxAluCycles)

SpecAlu == InitAlu /\ [][NextAlu]_vars

-----------------------------------------------------------------------------
(* Bit and flag runs: one instruction on every value of its operand.  The *)
(* 0xCB rotates through carry and BIT b,r on every operand; RLCA, RRCA,    *)
(* RLA, RRA, DAA, CPL, SCF, CCF on every accumulator and every flag state. *)

\* The value v is in A, B, D and at (HL) = 0xC000, its complement in C and
\* E; H and L hold v and its complement unless (HL) is the operand.
InitBit ==
    /\ \E v \in 0..255 :
          \/ /\ \E n \in (16..31) \cup (64..127) :
                   /\ cart = [prog |-> << \hCB, n >>, isr |-> << \hD9 >>,
                              fill |-> \h00]
                   /\ HL = IF n % 8 = 6 THEN \hC000 ELSE 255 * v + 255
             /\ \E f \in {\h00, \h10, \hE0, \hF0} : AF = 256 * v + f
          \/ /\ \E o \in {\h07, \h0F, \h17, \h1F, \h27, \h2F, \h37, \h3F} :
                   cart = [prog |-> << o >>, isr |-> << \hD9 >>, fill |-> \h00]
             /\ HL = \hC000
             /\ \E f \in 0..15 : AF = 256 * v + 16 * f
       /\ BC = 255 * v + 255 /\ DE = 255 * v + 255
       /\ mem = writeByte(<< >>, \hC000, v)
    /\ SP = \hFFFE
    /\ PC = PC_START
    /\ IME = FALSE /\ halted = FALSE
    /\ enableIRQ = 0 /\ disableIRQ = 0
    /\ cyclesDelta = 0 /\ totalCycles = 0
    /\ cpuEnabled = TRUE
    /\ op = 0
    /\ timerTicks = 0
    /\ stopped = FALSE
    /\ irqCount = 0
    /\ obs = NoCall
    /\ mbc = MBC1_new(0) /\ mbcLast = NoAccess

SpecBit == InitBit /\ [][NextAlu]_vars

-----------------------------------------------------------------------------
(* Cartridge runs: reads and writes of an MBC1 cartridge of any ROM size   *)
(* code, at sampled addresses of every window.                             *)

MaxMbcOps == 3

MbcAddrs == {\h0000, \h1FFF, \h2000, \h3FFF, \h4000, \h6000, \hA000}
MbcData  == {\h00, \h01, \h0A, \h1A, \h20, \h21, \h40, \h41, \h60, \h61}

CartWrite ==
    /\ mbcLast.n < MaxMbcOps
    /\ \E a \in MbcAddrs, v \in MbcData :
          /\ mbc' = MBC1_writeByte(mbc, a, v)
          /\ mbcLast' = [n |-> mbcLast.n + 1, kind |-> "write", addr |-> a,
                         data |-> v, ret |-> 0, pre |-> mbc,
                         gate |-> IF a <= 8191 THEN v ELSE mbcLast.gate]
    /\ UNCHANGED cpuVars

CartRead ==
    /\ mbcLast.n < MaxMbcOps
    /\ \E a \in {\h0000, \h4000, \hA000} :
          mbcLast' = [n |-> mbcLast.n + 1, kind |-> "read", addr |-> a,
                      data |-> 0, ret |-> MBC1_readByte(mbc, a), pre |-> mbc,
                      gate |-> mbcLast.gate]
    /\ UNCHANGED << cpuVars, mbc >>

InitMbc ==
    /\ Reset
    /\ mem = << >>
    /\ cart = StackProgram
    /\ timerTicks = 0
    /\ stopped = FALSE
    /\ irqCount = 0
    /\ obs = NoCall
    /\ \E code \in 0..6 : mbc = MBC1_new(code)
    /\ mbcLast = NoAccess

NextMbc == CartWrite \/ CartRead

SpecMbc == InitMbc /\ [][NextMbc]_vars

-----------------------------------------------------------------------------
(* Properties.  obs describes the most recent call of cpuStep: pre is the  *)
(* context at the call, svc the context at "Check if halted", post the one *)
(* at the return; last describes the call before it and from holds PC and *)
(* SP at the call that made the latest dispatch.                           *)

\* The most recent call was made with the CPU enabled.
Ran == obs.kind \in {"exec", "halted", "stop"}

Bit(x, k) == (x \div (2 ^ k)) % 2
IFReg(m)  == readByte(m, 65295)
IEReg(m)  == readByte(m, 65535)

\* The interrupt sources pending and enabled in memory m, and the first.
PendingBits(m) == { k \in 0..4 : Bit(IFReg(m), k) = 1 /\ Bit(IEReg(m), k) = 1 }
FirstOf(S)     == CHOOSE k \in S : \A j \in S : k <= j
VectorOf(k)    == << 64, 72, 80, 88, 96 >>[k + 1]

\* IME is clear, bit k of IF alone is cleared, the PC of the call is on the
\* stack and PC is the vector of source k, all at "Check if halted".
Dispatched(k) ==
    /\ ~obs.svc.IME
    /\ \A j \in 0..7 :
          Bit(IFReg(obs.svc.mem), j) =
              IF j = k THEN 0 ELSE Bit(IFReg(obs.pre.mem), j)
    /\ obs.svc.SP = (obs.pre.SP - 2) % 65536
    /\ readByte(obs.svc.mem, obs.svc.SP) = obs.pre.PC % 256
    /\ readByte(obs.svc.mem, (obs.svc.SP + 1) % 65536) = obs.pre.PC \div 256
    /\ obs.svc.PC = VectorOf(k)

\* C1: a step that starts not halted, with IME set and an interrupt pending
\* and enabled, clears IME, clears in IF only the lowest pending and enabled
\* bit, pushes the PC it started with and sets PC to that bit's vector, all
\* before the fetch: the opcode it fetches is the one at the vector.
C1_Case ==
    Ran /\ ~obs.pre.halted /\ obs.pre.IME /\ PendingBits(obs.pre.mem) # {}
C1_DispatchBeforeFetch ==
    C1_Case =>
        /\ Dispatched(FirstOf(PendingBits(obs.pre.mem)))
        /\ obs.kind = "exec"
        /\ op = readByte(obs.svc.mem, VectorOf(FirstOf(PendingBits(obs.pre.mem))))
\* Two bits of IF are set, the lower one is not enabled, the other one is
\* dispatched.
C1_Witness ==
    /\ C1_Case
    /\ IFReg(obs.pre.mem) = 3 /\ IEReg(obs.pre.mem) = 10
    /\ obs.svc.PC = 72 /\ IFReg(obs.svc.mem) = 1

\* C2: a step that starts halted, with IME set and an interrupt pending and
\* enabled, clears halted and dispatches the interrupt in that same step.
C2_Case ==
    Ran /\ obs.pre.halted /\ obs.pre.IME /\ PendingBits(obs.pre.mem) # {}
C2_HaltedDispatchSameStep ==
    C2_Case =>
        /\ ~obs.svc.halted
        /\ Dispatched(FirstOf(PendingBits(obs.pre.mem)))

\* C3: a step that starts halted, with IME clear and an interrupt pending
\* and enabled, clears halted and dispatches nothing (IME, IF, SP, PC and
\* the stack bytes are as they were), then fetches and executes the
\* instruction after HALT in the same step.
C3_Case ==
    Ran /\ obs.pre.halted /\ ~obs.pre.IME /\ PendingBits(obs.pre.mem) # {}
C3_WakeWithoutDispatch ==
    C3_Case =>
        /\ ~obs.svc.halted
        /\ ~obs.svc.IME /\ ~obs.post.IME
        /\ obs.svc.mem = obs.pre.mem
        /\ obs.svc.SP = obs.pre.SP /\ obs.svc.PC = obs.pre.PC
        /\ obs.kind = "exec"
        /\ op = readByte(obs.pre.mem, obs.pre.PC)
        /\ obs.post.totalCycles = obs.pre.totalCycles + obs.post.cyclesDelta
C3_Witness ==
    C3_Case /\ obs.kind = "exec" /\ IFReg(obs.post.mem) # 0 /\ ~obs.post.halted

\* C4: a step that starts halted with no interrupt pending and enabled
\* fetches nothing: PC, SP, AF, BC, DE, HL, IME, the delay counters and
\* memory are as they were, cyclesDelta is 1, totalCycles is one more and
\* the CPU is still halted; so for every such step in a row.
C4_Case == Ran /\ obs.pre.halted /\ PendingBits(obs.pre.mem) = {}
C4_HaltedIdle ==
    C4_Case =>
        /\ obs.kind = "halted"
        /\ op = obs.last.op
        /\ obs.post.PC = obs.pre.PC /\ obs.post.SP = obs.pre.SP
        /\ obs.post.AF = obs.pre.AF /\ obs.post.BC = obs.pre.BC
        /\ obs.post.DE = obs.pre.DE /\ obs.post.HL = obs.pre.HL
        /\ obs.post.IME = obs.pre.IME
        /\ obs.post.enableIRQ = obs.pre.enableIRQ
        /\ obs.post.disableIRQ = obs.pre.disableIRQ
        /\ obs.post.mem = obs.pre.mem
        /\ obs.post.cyclesDelta = 1
        /\ obs.post.totalCycles = obs.pre.totalCycles + 1
        /\ obs.post.halted
\* The third idle step in a row, an interrupt being requested but not enabled.
C4_Witness == C4_Case /\ obs.idle >= 3 /\ IFReg(obs.pre.mem) # 0

\* C5: the step after an EI executed with IME clear samples interrupts with
\* IME still clear, dispatches nothing, and has IME set when its
\* instruction has completed.
C5_EITakesEffectAfterNext ==
    (obs.last.kind = "exec" /\ obs.last.op = 251 /\ ~obs.last.IME
        /\ obs.kind = "exec") =>
        /\ ~obs.pre.IME
        /\ obs.svc.disp = -1
        /\ obs.post.IME

\* C6: the step that executes DI, no EI or RETI delay running, leaves IME
\* as it was; the step that executes the instruction after DI ends with IME
\* clear.
C6_DITakesEffectAfterNext ==
    /\ (obs.kind = "exec" /\ op = 243 /\ obs.svc.disp = -1
           /\ obs.pre.enableIRQ = 0) => (obs.post.IME = obs.pre.IME)
    /\ (obs.last.kind = "exec" /\ obs.last.op = 243
           /\ obs.kind = "exec" /\ obs.svc.disp = -1) => ~obs.post.IME

\* C7: RETI sets PC to the word on the stack, adds 2 to SP, costs 4 cycles
\* and does not set IME in its own step; the step that executes the
\* instruction after RETI ends with IME set.
C7_RETIDelay ==
    /\ (obs.kind = "exec" /\ op = 217) =>
           /\ obs.post.PC = readByte(obs.svc.mem, obs.svc.SP)
                  + 256 * readByte(obs.svc.mem, (obs.svc.SP + 1) % 65536)
           /\ obs.post.SP = (obs.svc.SP + 2) % 65536
           /\ obs.post.cyclesDelta = 4
           /\ (~obs.svc.IME => ~obs.post.IME)
    /\ (obs.last.kind = "exec" /\ obs.last.op = 217
           /\ obs.kind = "exec" /\ obs.svc.disp = -1) => obs.post.IME

\* C8: between steps the low four bits of AF are zero, whatever the opcode
\* and the memory contents; POP AF clears them in the word it pops.
C8_FlagLowNibbleZero == AF % 16 = 0
\* POP AF has popped a low byte whose low four bits are set.
C8_Witness ==
    /\ obs.kind = "exec" /\ op = 241
    /\ readByte(obs.pre.mem, obs.pre.SP) % 16 = 15
    /\ AF \div 256 = readByte(obs.pre.mem, (obs.pre.SP + 1) % 65536)

\* C9: totalCycles never decreases, and every call made with the CPU
\* enabled that returns, halted or not, adds its cyclesDelta to it, a
\* number from 1 to 6.
C9_CycleAccounting ==
    /\ obs.post.totalCycles >= obs.pre.totalCycles
    /\ totalCycles = obs.post.totalCycles
    /\ obs.kind \in {"exec", "halted"} =>
           /\ obs.post.cyclesDelta \in 1..6
           /\ obs.post.totalCycles = obs.pre.totalCycles + obs.post.cyclesDelta
\* A call has completed a six-cycle instruction.
C9_Witness ==
    obs.kind = "exec" /\ obs.post.cyclesDelta = 6
        /\ totalCycles = obs.pre.totalCycles + 6

\* C10: a step ticks the timer as many times as the cyclesDelta the step
\* before left; between steps the ticks made so far are totalCycles less
\* cyclesDelta; the first step after reset makes none.
C10_TimerTicks ==
    /\ ~stopped => timerTicks = totalCycles - cyclesDelta
    /\ Ran => obs.ticks = obs.pre.cyclesDelta
    /\ (Ran /\ obs.pre.totalCycles = 0) => obs.ticks = 0
\* The step after a four-cycle instruction has made its four ticks.
C10_Witness ==
    Ran /\ obs.ticks = 4 /\ timerTicks = obs.pre.totalCycles /\ timerTicks > 4

\* An address whose byte the bus stores on a CPU write.
Stored(a) == ~IsRom(Phys(a)) /\ ~IsUnmapped(Phys(a))

\* POP DE has just run, right after PUSH BC.
C11_Case ==
    /\ obs.last.kind = "exec" /\ obs.last.op = 197
    /\ obs.kind = "exec" /\ op = 209

\* C11: for every word x and every SP, SP = 0x0000 and 0x0001 included, a
\* push of x followed by a pop returns x and leaves SP as it was before the
\* push.
C11_PushPopRoundTrip == C11_Case => (DE = BC /\ SP = obs.last.SP)

\* C11, amended: a push followed by a pop leaves SP as it was before the
\* push for every SP, and returns the word pushed whenever the two stack
\* bytes, at SP-1 and SP-2 modulo 2^16, are bytes the bus stores.
C11_PushPopStored ==
    C11_Case =>
        /\ SP = obs.last.SP
        /\ (Stored((obs.last.SP + 65535) % 65536)
               /\ Stored((obs.last.SP + 65534) % 65536)) => DE = BC
\* SP was 0x0000: the word went to 0xFFFF and 0xFFFE and came back.
C11_Witness ==
    C11_Case /\ obs.last.SP = 0 /\ SP = 0 /\ BC = 4660 /\ DE = 4660
        /\ readByte(mem, 65535) = 18 /\ readByte(mem, 65534) = 52

\* C12: a fetched opcode reaches the not-implemented branch exactly when it
\* is one of 0xD3, 0xDB, 0xDD, 0xE3, 0xE4, 0xEB, 0xEC, 0xED, 0xF4, 0xFC,
\* 0xFD (so never with 0xCB, whatever the sub-opcode); the emulator is
\* stopped from then on, and once it is stopped no step changes a register,
\* IME, memory or totalCycles.
C12_NotImplemented ==
    /\ [](/\ obs.kind \in {"exec", "stop"} =>
                ((obs.kind = "stop") <=>
                    op \in {211, 219, 221, 227, 228, 235, 236, 237, 244, 252, 253})
          /\ stopped <=> (obs.kind = "stop"))
    /\ [][stopped =>
            /\ stopped'
            /\ UNCHANGED << AF, BC, DE, HL, SP, PC, IME, mem, totalCycles >>]_vars
\* 0xED was fetched at 0x0100: the emulator is stopped, no cycle was added.
C12_Witness ==
    /\ stopped /\ obs.kind = "stop" /\ op = 237
    /\ PC = 257 /\ totalCycles = obs.pre.totalCycles

\* A step was made from the register file of reset with IE = 0x01,
\* IF = 0x01, IME set and a NOP at PC.
C13_Case ==
    /\ Ran /\ ~obs.pre.halted /\ obs.pre.IME
    /\ obs.pre.AF = 432 /\ obs.pre.BC = 19 /\ obs.pre.DE = 216
    /\ obs.pre.HL = 333 /\ obs.pre.SP = 65534 /\ obs.pre.PC = 256
    /\ IEReg(obs.pre.mem) = 1 /\ IFReg(obs.pre.mem) = 1
    /\ readByte(obs.pre.mem, obs.pre.PC) = 0

\* In the context c, IME and bit 0 of IF are clear, SP is two less than
\* before the step and the two bytes at SP hold the PC of before the step.
C13_Serviced(c) ==
    /\ ~c.IME
    /\ Bit(IFReg(c.mem), 0) = 0
    /\ c.SP = obs.pre.SP - 2
    /\ readByte(c.mem, c.SP) + 256 * readByte(c.mem, c.SP + 1) = obs.pre.PC

\* C13: from the register file of reset with IE = 0x01, IF = 0x01, IME set
\* and a NOP to execute, after one step IME is clear, bit 0 of IF is clear,
\* PC is 0x0040, SP is two less and the two bytes at SP hold the PC of
\* before the step.
C13_VBlankStep == C13_Case => (C13_Serviced(obs.post) /\ obs.post.PC = 64)

\* C13, amended: in such a step IME is clear, bit 0 of IF is clear, SP is
\* two less, the two bytes at SP hold the PC of before the step and PC is
\* 0x0040 at the fetch; the step goes on to execute the instruction at
\* 0x0040, and with a NOP there and no delay of an EI or a RETI pending it
\* ends with all of this and PC = 0x0041.
C13_VBlankStepFetch ==
    C13_Case =>
        /\ C13_Serviced(obs.svc) /\ obs.svc.PC = 64
        /\ obs.kind = "exec" /\ op = readByte(obs.pre.mem, 64)
        /\ (op = 0 /\ obs.pre.enableIRQ = 0) =>
                (C13_Serviced(obs.post) /\ obs.post.PC = 65)
\* The vector holds a NOP and the step has executed it.
C13_Witness ==
    C13_Case /\ op = 0 /\ PC = 65 /\ SP = 65532 /\ ~IME
        /\ IFReg(mem) = 0 /\ readByte(mem, 65532) = 0 /\ readByte(mem, 65533) = 1

\* C14: a 0xCB instruction charges 2 cycles with a register operand and 4
\* with the (HL) operand; RLC A on A = 0x01 leaves A = 0x02 and F = 0x00,
\* two cycles after the LD A,1 before it.
C14_CBCycles ==
    (obs.kind = "exec" /\ op = 203) =>
        LET n == readByte(obs.svc.mem, (obs.svc.PC + 1) % 65536) IN
        /\ obs.post.cyclesDelta = IF n % 8 = 6 THEN 4 ELSE 2
        /\ obs.post.totalCycles = obs.pre.totalCycles + obs.post.cyclesDelta
        /\ (n = 7 /\ obs.pre.AF \div 256 = 1) => obs.post.AF = 512

\* Whether condition cc (0 NZ, 1 Z, 2 NC, 3 C) holds in the flag byte f.
Holds(cc, f) ==
    CASE cc = 0 -> Bit(f, 7) = 0
      [] cc = 1 -> Bit(f, 7) = 1
      [] cc = 2 -> Bit(f, 4) = 0
      [] cc = 3 -> Bit(f, 4) = 1

\* The cost taken, the cost not taken and the length of the conditional
\* instruction o: JP cc,nn / JR cc,e / CALL cc,nn / RET cc.
CondCost(o) ==
    CASE o \in {194, 202, 210, 218} -> << 4, 3, 3 >>
      [] o \in {32, 40, 48, 56}     -> << 3, 2, 2 >>
      [] o \in {196, 204, 212, 220} -> << 6, 3, 3 >>
      [] o \in {192, 200, 208, 216} -> << 5, 2, 1 >>

C15_Case ==
    /\ obs.kind = "exec"
    /\ op \in {194, 202, 210, 218, 32, 40, 48, 56, 196, 204, 212, 220,
               192, 200, 208, 216}

\* C15: JP cc,nn / JR cc,e / CALL cc,nn / RET cc charge 4 / 3 / 6 / 5 cycles
\* exactly when cc holds in F; when it does not hold they charge 3 / 2 / 3 /
\* 2, leave SP and memory as they were and leave PC at the next instruction.
C15_ConditionalCost ==
    C15_Case =>
        LET taken == Holds((op \div 8) % 4, obs.svc.AF % 256)
            k     == CondCost(op)
        IN  /\ obs.post.cyclesDelta = IF taken THEN k[1] ELSE k[2]
            /\ ~taken =>
                  /\ obs.post.SP = obs.svc.SP
                  /\ obs.post.mem = obs.svc.mem
                  /\ obs.post.PC = (obs.svc.PC + k[3]) % 65536
\* CALL Z,nn with Z clear and C set: not taken, 3 cycles, PC three further.
C15_Witness ==
    /\ C15_Case /\ op = 204 /\ obs.pre.AF % 256 = 16
    /\ cyclesDelta = 3 /\ PC = 259 /\ SP = obs.pre.SP

\* A write of v to the primary-bank window 0x2000-0x3FFF has been made.
C16_Case ==
    mbcLast.kind = "write" /\ mbcLast.addr \in 8192..16383

\* C16: whatever the latches, after a write of 0x00 or 0x01 to
\* 0x2000-0x3FFF the bank at 0x4000 is the one numbered secondaryBank * 32
\* + 1, modulo the declared bank count, and likewise for 0x20 and 0x21,
\* 0x40 and 0x41, 0x60 and 0x61; primaryBank is not 0 after a write to that
\* window.
C16_BankZeroRewrite ==
    C16_Case =>
        /\ mbc.primaryBankBits \in 1..31
        /\ mbcLast.data \in {0, 1, 32, 33, 64, 65, 96, 97} =>
              /\ HighBank(mbc) =
                    (mbcLast.pre.secondaryBankBits * 32 + 1)
                        % (2 ^ (mbc.romSize + 1))
              /\ mbc.secondaryBankBits = mbcLast.pre.secondaryBankBits
              /\ mbc.bankModeSelect = mbcLast.pre.bankModeSelect
\* 0x60 was written with secondaryBank = 2 on a 128-bank cartridge: bank 65.
C16_Witness ==
    /\ C16_Case /\ mbcLast.data = 96 /\ mbcLast.pre.secondaryBankBits = 2
    /\ mbc.romSize = 6 /\ HighBank(mbc) = 65 /\ mbc.primaryBankBits = 1

\* The RAM window 0xA000-0xBFFF has been read or written while the value
\* most recently written to 0x0000-0x1FFF, if any, had a low nibble other
\* than 0xA.
C17_Case ==
    /\ mbcLast.kind \in {"read", "write"}
    /\ mbcLast.addr \in 40960..49151
    /\ (mbcLast.gate = -1 \/ mbcLast.gate % 16 # 10)

\* C17: unless the value most recently written to 0x0000-0x1FFF had the
\* low nibble 0xA, a read of the RAM window returns 0xFF and a write to it
\* leaves every RAM bank as it was.
C17_RamGate ==
    C17_Case =>
        /\ mbcLast.kind = "read" => mbcLast.ret = 255
        /\ mbc.ramBanks = mbcLast.pre.ramBanks
\* 0x01 was written to 0x0000 and 0xA000 read: 0xFF, though RAM holds 0x5A.
C17_Witness ==
    /\ C17_Case /\ mbcLast.kind = "read" /\ mbcLast.gate = 1
    /\ mbcLast.ret = 255 /\ mbc.ramBanks[<< 0, 0 >>] = 90

\* C18: for every ROM size code 0..6 the banks an MBC1 cartridge holds,
\* firstRomBankCount + secondaryRomBankCount, are as many as the code
\* declares: 2, 4, 8, 16, 32, 64, 128.
C18_RomBankCount ==
    mbc.firstRomBankCount + mbc.secondaryRomBankCount
        = << 2, 4, 8, 16, 32, 64, 128 >>[mbc.romSize + 1]

\* The byte after the opcode of the most recent step, and its value as a
\* signed byte.
ByteAfterOp == readByte(obs.svc.mem, (obs.svc.PC + 1) % 65536)
SignedByteAfterOp == IF ByteAfterOp < 128 THEN ByteAfterOp ELSE ByteAfterOp - 256

C19_Case == obs.kind = "exec" /\ op = 248

\* C19: LD HL,SP+e sets HL to (SP + e) mod 2^16 for the signed byte e,
\* leaves SP as it was, clears Z and N, sets H to the carry out of bit 3 and
\* C to the carry out of bit 7 of (SP & 0xFF) + (e & 0xFF), and costs 3
\* cycles.
C19_LDHL ==
    C19_Case =>
        /\ obs.post.HL = (obs.svc.SP + SignedByteAfterOp) % 65536
        /\ obs.post.SP = obs.svc.SP
        /\ obs.post.AF % 256 =
              (IF (obs.svc.SP % 16) + (ByteAfterOp % 16) > 15 THEN 32 ELSE 0)
              + (IF (obs.svc.SP % 256) + ByteAfterOp > 255 THEN 16 ELSE 0)
        /\ obs.post.cyclesDelta = 3
\* SP = 0x0001 and e = -1: HL = 0x0000, H and C set.
C19_Witness ==
    /\ C19_Case /\ obs.pre.SP = 1 /\ ByteAfterOp = 255
    /\ HL = 0 /\ SP = 1 /\ AF % 256 = 48

\* The operand of the AND / XOR / OR instruction o in the context c.
LogicOperand(c, o) ==
    IF o \in {230, 238, 246} THEN ByteAfterOp
    ELSE << c.BC \div 256, c.BC % 256, c.DE \div 256, c.DE % 256,
            c.HL \div 256, c.HL % 256, readByte(c.mem, c.HL),
            c.AF \div 256 >>[(o % 8) + 1]

\* The bits of a and v combined: f is 0 for AND, 1 for XOR, 2 for OR.
Bitwise(f, a, v) ==
    LET b(k) == CASE f = 0 -> Bit(a, k) * Bit(v, k)
                  [] f = 1 -> (Bit(a, k) + Bit(v, k)) % 2
                  [] f = 2 -> IF Bit(a, k) + Bit(v, k) > 0 THEN 1 ELSE 0
    IN  b(0) + 2 * b(1) + 4 * b(2) + 8 * b(3) + 16 * b(4) + 32 * b(5)
          + 64 * b(6) + 128 * b(7)

C20_Case ==
    obs.kind = "exec" /\ (op \in 160..183 \/ op \in {230, 238, 246})

\* C20: AND, OR and XOR with a register, (HL) or an immediate byte write
\* the bitwise result to A, set Z iff it is 0, clear N and C, and set H for
\* AND and clear it for OR and XOR; XOR A leaves A = 0 and F = 0x80.
C20_Logic ==
    C20_Case =>
        LET f == IF op < 192 THEN (op - 160) \div 8 ELSE (op - 230) \div 8
            r == Bitwise(f, obs.svc.AF \div 256, LogicOperand(obs.svc, op))
        IN  /\ obs.post.AF = 256 * r + (IF r = 0 THEN 128 ELSE 0)
                                + (IF f = 0 THEN 32 ELSE 0)
            /\ op = 175 => obs.post.AF = 128
\* XOR A with A = 0xFF and every flag set.
C20_Witness == C20_Case /\ op = 175 /\ obs.pre.AF = 65520 /\ AF = 128

\* RRCA has just run, right after RLCA, in a run that began with BC = AF.
C21_Case ==
    /\ cart.prog = << 7, 15 >>
    /\ obs.last.kind = "exec" /\ obs.last.op = 7
    /\ obs.kind = "exec" /\ op = 15

\* C21: for every A and every flag state, RLCA then RRCA restores A and
\* leaves the carry flag equal to the original bit 0 of A, with Z, N and H
\* cleared.
C21_RotateRoundTrip ==
    C21_Case => AF = 256 * (BC \div 256) + 16 * Bit(BC, 8)

\* C21, amended: for every A and every flag state, RLCA then RRCA restores
\* A and leaves the carry flag equal to the original bit 7 of A, with Z, N
\* and H cleared.
C21_RotateRoundTripBit7 ==
    C21_Case => AF = 256 * (BC \div 256) + 16 * Bit(BC, 15)

\* A was 0x80 with every flag clear: A is 0x80 again and the carry is set.
C21_Witness == C21_Case /\ BC = \h8000 /\ AF = \h8010

\* The 8-bit operand r of the context c, in the order of the encodings:
\* B, C, D, E, H, L, (HL), A.
Reg8(c, r) ==
    << c.BC \div 256, c.BC % 256, c.DE \div 256, c.DE % 256,
       c.HL \div 256, c.HL % 256, readByte(c.mem, c.HL), c.AF \div 256 >>[r + 1]

\* SWAP r has just run; with (HL) as the operand, HL is the address of a
\* byte the bus stores.
C22_Case ==
    /\ obs.kind = "exec" /\ op = 203 /\ ByteAfterOp \in 48..55
    /\ ByteAfterOp = 54 => Stored(obs.svc.HL)

C23_Case ==
    /\ obs.kind = "exec" /\ op < 64 /\ op % 8 \in {4, 5}
    /\ op \div 8 = 6 => Stored(obs.svc.HL)

AccOperand(c, o) == IF o >= 192 THEN ByteAfterOp ELSE Reg8(c, o % 8)

\* The flag byte with Z, N, H, C as given.
Flags(z, n, h, cy) ==
    (IF z THEN 128 ELSE 0) + (IF n THEN 64 ELSE 0) + (IF h THEN 32 ELSE 0)
        + (IF cy THEN 16 ELSE 0)

\* ADD A,n or ADC A,n has just run.
C24_Case == obs.kind = "exec" /\ (op \in 128..143 \/ op \in {198, 206})

\* C24: ADD A,n and ADC A,n set A to (A + n [+ c]) mod 256, Z iff the
\* result is 0, N to 0, H iff (A & 0xF) + (n & 0xF) [+ c] > 0xF and C iff
\* A + n [+ c] > 0xFF, with n a register, A itself, (HL) or an immediate
\* byte.
C24_AddAdc ==
    C24_Case =>
        LET a  == obs.svc.AF \div 256
            n  == AccOperand(obs.svc, op)
            ci == IF op \in 136..143 \/ op = 206 THEN Bit(obs.svc.AF, 4) ELSE 0
            r  == (a + n + ci) % 256
        IN  obs.post.AF = 256 * r + Flags(r = 0, FALSE,
                                          (a % 16) + (n % 16) + ci > 15,
                                          a + n + ci > 255)
\* ADC A,0x00 with A = 0x0F and the carry set: A = 0x10 and only H set.
C24_Witness == C24_Case /\ op = 206 /\ obs.pre.AF = 3856 /\ ByteAfterOp = 0
                        /\ AF = 4128

\* SUB n, SBC n or CP n has just run.
C25_Case ==
    obs.kind = "exec" /\ (op \in 144..159 \/ op \in 184..191
                             \/ op \in {214, 222, 254})

\* C25: SUB n and SBC n set A to (A - n [- c]) mod 256, Z iff the result is
\* 0, N to 1, H iff (A & 0xF) < (n & 0xF) [+ c] and C iff A < n [+ c]; CP n
\* gives the flags of SUB n for the same A and n and leaves A as it was.
C25_SubSbcCp ==
    C25_Case =>
        LET a  == obs.svc.AF \div 256
            n  == AccOperand(obs.svc, op)
            ci == IF op \in 152..159 \/ op = 222 THEN Bit(obs.svc.AF, 4) ELSE 0
            r  == (a + 512 - n - ci) % 256
            f  == Flags(r = 0, TRUE, a % 16 < (n % 16) + ci, a < n + ci)
        IN  obs.post.AF = 256 * (IF op \in 184..191 \/ op = 254 THEN a ELSE r) + f
\* SBC A,0xFF with A = 0x00 and the carry set: A = 0x00 with Z, N, H and C.
C25_Witness == C25_Case /\ op = 222 /\ obs.pre.AF = 16 /\ ByteAfterOp = 255
                        /\ AF = 240

\* C26: STOP (0x10) reads the byte after it, so that PC ends two bytes
\* further, charges 1 cycle and sets the halted latch.
C26_Stop ==
    (obs.kind = "exec" /\ op = 16) =>
        /\ obs.post.PC = (obs.svc.PC + 2) % 65536
        /\ obs.post.cyclesDelta = 1
        /\ obs.post.halted

\* No step has run an instruction yet: cpuStep has not been called, or only
\* while the CPU was switched off.
C27_Case == obs.kind \in {"none", "off"}

\* C27: before any step AF = 0x01B0, BC = 0x0013, DE = 0x00D8, HL = 0x014D,
\* SP = 0xFFFE, PC = 0x0100, IME and halted are clear, the EI and DI delay
\* counters, cyclesDelta and totalCycles are 0.
C27_ResetState ==
    C27_Case =>
        /\ AF = 432 /\ BC = 19 /\ DE = 216 /\ HL = 333
        /\ SP = 65534 /\ PC = 256
        /\ ~IME /\ ~halted
        /\ enableIRQ = 0 /\ disableIRQ = 0
        /\ cyclesDelta = 0 /\ totalCycles = 0
\* The CPU has been switched on after a call that found it off, and a
\* device has raised a request: the registers are still those of reset.
C27_Witness ==
    /\ obs.kind = "off" /\ cpuEnabled /\ irqCount = 1
    /\ AF = 432 /\ SP = 65534 /\ PC = 256 /\ totalCycles = 0

\* PUSH BC, DE or HL, or POP BC, DE or HL, has just run.
C28_Case == obs.kind = "exec" /\ op \in {197, 213, 229, 193, 209, 225}

\* C28: a push of v writes v >> 8 at SP-1 and v & 0xFF at SP-2 (modulo
\* 2^16), writes no other address and leaves SP = SP-2; a pop reads the low
\* byte at SP and the high byte at SP+1 and leaves SP = SP+2; PUSH rr and
\* POP rr for BC, DE and HL use this layout and change no flag.
C28_StackLayout ==
    C28_Case =>
        LET s  == obs.svc
            p  == obs.post
            rr == IF op \in {197, 193} THEN "BC"
                  ELSE IF op \in {213, 209} THEN "DE" ELSE "HL"
            a1 == (s.SP + 65535) % 65536
            a2 == (s.SP + 65534) % 65536
        IN  /\ p.AF = s.AF
            /\ \A q \in {"BC", "DE", "HL"} \ {rr} : p[q] = s[q]
            /\ op \in {197, 213, 229} =>
                  /\ p.SP = a2
                  /\ p[rr] = s[rr]
                  /\ p.mem = writeByte(writeByte(s.mem, a1, s[rr] \div 256),
                                       a2, s[rr] % 256)
                  /\ Stored(a1) => readByte(p.mem, a1) = s[rr] \div 256
                  /\ Stored(a2) => readByte(p.mem, a2) = s[rr] % 256
            /\ op \in {193, 209, 225} =>
                  /\ p.SP = (s.SP + 2) % 65536
                  /\ p.mem = s.mem
                  /\ p[rr] = readByte(s.mem, s.SP)
                               + 256 * readByte(s.mem, (s.SP + 1) % 65536)
\* PUSH HL with SP = 0x0000: 0x01 is at 0xFFFF, 0x4D at 0xFFFE, SP = 0xFFFE.
C28_Witness ==
    /\ C28_Case /\ op = 229 /\ obs.pre.SP = 0 /\ SP = 65534
    /\ readByte(mem, 65535) = 1 /\ readByte(mem, 65534) = 77

C29_Calls == {205, 196, 204, 212, 220}
C29_Rsts  == {199, 207, 215, 223, 231, 239, 247, 255}

\* CALL nn, a taken CALL cc,nn or RST n has just run.
C29_CallCase ==
    /\ obs.kind = "exec"
    /\ \/ op = 205
       \/ op \in C29_Calls /\ op # 205 /\ Holds((op \div 8) % 4, obs.svc.AF % 256)
       \/ op \in C29_Rsts

\* RET has just run, right after the CALL or RST at PC_START pushed.
C29_RetCase ==
    /\ obs.kind = "exec" /\ op = 201
    /\ obs.last.kind = "exec" /\ obs.last.op \in C29_Calls \cup C29_Rsts
    /\ obs.svc.SP = (obs.last.SP + 65534) % 65536

\* C29: CALL nn and a taken CALL cc,nn push the address of the instruction
\* after the 3-byte CALL and jump to nn; RST pushes the address of the next
\* instruction and jumps to its vector, one of 0x00, 0x08, ..., 0x38; a RET
\* that follows, the stack bytes being kept in between, sets PC to the
\* pushed address and SP to its value before the call.
C29_CallReturn ==
    /\ C29_CallCase =>
          LET s   == obs.svc
              p   == obs.post
              len == IF op \in C29_Rsts THEN 1 ELSE 3
              ret == (s.PC + len) % 65536
              a1  == (s.SP + 65535) % 65536
              a2  == (s.SP + 65534) % 65536
          IN  /\ p.PC = IF op \in C29_Rsts THEN op - 199
                        ELSE readByte(s.mem, (s.PC + 1) % 65536)
                               + 256 * readByte(s.mem, (s.PC + 2) % 65536)
              /\ op \in C29_Rsts => p.PC \in { 8 * k : k \in 0..7 }
              /\ p.SP = a2
              /\ p.mem = writeByte(writeByte(s.mem, a1, ret \div 256),
                                   a2, ret % 256)
    /\ C29_RetCase =>
          LET ret == PC_START + (IF obs.last.op \in C29_Rsts THEN 1 ELSE 3)
          IN  /\ obs.post.SP = obs.last.SP
              /\ (Stored((obs.last.SP + 65535) % 65536)
                     /\ Stored((obs.last.SP + 65534) % 65536))
                    => obs.post.PC = ret
\* RET at 0x0038 after RST 0x38 at 0x0100 with SP = 0xFFFE: PC is 0x0101.
C29_Witness ==
    /\ C29_RetCase /\ obs.last.op = 255 /\ obs.pre.PC = 56
    /\ PC = 257 /\ SP = 65534

\* ADD HL,BC / ADD HL,DE / ADD HL,HL / ADD HL,SP has just run.
C30_Case == obs.kind = "exec" /\ op \in {9, 25, 41, 57}

\* C30: ADD HL,rr sets HL to (HL + rr) mod 2^16, leaves Z as it was, clears
\* N, sets H iff (HL & 0x0FFF) + (rr & 0x0FFF) > 0x0FFF and C iff
\* HL + rr > 0xFFFF, and leaves rr as it was when rr is not HL.
C30_AddHL ==
    C30_Case =>
        LET s  == obs.svc
            p  == obs.post
            rr == << s.BC, s.DE, s.HL, s.SP >>[(op \div 16) + 1]
        IN  /\ p.HL = (s.HL + rr) % 65536
            /\ p.AF % 256 = Flags(Bit(s.AF, 7) = 1, FALSE,
                                  (s.HL % 4096) + (rr % 4096) > 4095,
                                  s.HL + rr > 65535)
            /\ p.AF \div 256 = s.AF \div 256
            /\ p.BC = s.BC /\ p.DE = s.DE /\ p.SP = s.SP
\* ADD HL,SP with HL = 0x0FFF, SP = 0xF001 and Z set: HL = 0x0000 with Z
\* kept, H and C set.
C30_Witness ==
    /\ C30_Case /\ op = 57 /\ obs.pre.HL = 4095 /\ SP = 61441
    /\ obs.pre.AF = 496 /\ HL = 0 /\ AF = 432

\* RL r or RR r of the 0xCB page has just run, (HL) being a byte the bus
\* stores; or RLA or RRA has.
C31_Case ==
    /\ obs.kind = "exec"
    /\ \/ op = 203 /\ ByteAfterOp \in 16..31
             /\ (ByteAfterOp % 8 = 6 => Stored(obs.svc.HL))
       \/ op \in {23, 31}

C32_Case == obs.kind = "exec" /\ op = 203 /\ ByteAfterOp \in 64..127

\* C32: for every bit b, every operand r of B, C, D, E, H, L, (HL), A and
\* every value, BIT b,r sets Z to the complement of bit b of r, clears N,
\* sets H, leaves C as it was, and leaves r, every other register and
\* memory as they were.
C32_Bit ==
    C32_Case =>
        LET s == obs.svc
            p == obs.post
            b == (ByteAfterOp - 64) \div 8
            r == ByteAfterOp % 8
        IN  /\ p.AF % 256 = Flags(Bit(Reg8(s, r), b) = 0, FALSE, TRUE,
                                  Bit(s.AF, 4) = 1)
            /\ p.AF \div 256 = s.AF \div 256
            /\ p.BC = s.BC /\ p.DE = s.DE /\ p.HL = s.HL /\ p.SP = s.SP
            /\ p.mem = s.mem
\* BIT 7,H with HL = 0x807F and every flag set: Z and N are clear, H and C set.
C32_Witness ==
    /\ C32_Case /\ ByteAfterOp = 124 /\ HL = 32895
    /\ obs.pre.AF = 33008 /\ AF = 32816

\* DAA has just run.
C33_Case == obs.kind = "exec" /\ op = 39

\* C33: for every A and every N, H, C, DAA adds (N = 0) or subtracts (N = 1)
\* an offset made of 0x06 iff H is set or (N = 0 and (A & 0x0F) > 9), and of
\* 0x60 iff C is set or (N = 0 and A > 0x99); then Z is that of the new A, N
\* is as it was, H is clear and C is set iff the 0x60 part was applied.
C33_DAA ==
    C33_Case =>
        LET s  == obs.svc
            a  == s.AF \div 256
            n  == Bit(s.AF, 6) = 1
            lo == Bit(s.AF, 5) = 1 \/ (~n /\ a % 16 > 9)
            hi == Bit(s.AF, 4) = 1 \/ (~n /\ a > 153)
            d  == (IF lo THEN 6 ELSE 0) + (IF hi THEN 96 ELSE 0)
            w  == IF n THEN (a + 256 - d) % 256 ELSE (a + d) % 256
        IN  obs.post.AF = 256 * w + Flags(w = 0, n, FALSE, hi)
\* DAA after 0x19 + 0x28 = 0x41 with H set: A = 0x47 and every flag clear.
C33_Witness == C33_Case /\ obs.pre.AF = 16672 /\ AF = 18176

\* SCF, CCF or CPL has just run.
C34_Case == obs.kind = "exec" /\ op \in {55, 63, 47}

\* C34: for every A and every flag state, SCF sets C, CCF inverts C, both
\* clear N and H and leave Z and A as they were; CPL replaces A by its
\* bitwise complement, sets N and H and leaves Z and C as they were.
C34_FlagOps ==
    C34_Case =>
        LET s == obs.svc
            a == s.AF \div 256
            z == Bit(s.AF, 7) = 1
            c == Bit(s.AF, 4) = 1
        IN  obs.post.AF =
               CASE op = 55 -> 256 * a + Flags(z, FALSE, FALSE, TRUE)
                 [] op = 63 -> 256 * a + Flags(z, FALSE, FALSE, ~c)
                 [] op = 47 -> 256 * (255 - a) + Flags(z, TRUE, TRUE, c)
\* CCF with A = 0x5A and Z, N, H, C all set: Z stays, N, H and C are clear.
C34_Witness == C34_Case /\ op = 63 /\ obs.pre.AF = 23280 /\ AF = 23168

\* LD BC,nn / LD DE,nn / LD HL,nn / LD SP,nn or LD (nn),SP has just run.
C35_Case == obs.kind = "exec" /\ op \in {1, 17, 33, 49, 8}

C36_Case == Ran /\ obs.svc.disp # -1

\* C36: once an interrupt has been dispatched IME stays clear until an EI or
\* a RETI executed after the dispatch has taken effect, whatever ran before
\* the dispatch, an EI executed just before it with IME set included; so at
\* the end of the dispatching step, whose one instruction cannot have taken
\* effect yet, IME is clear.
C36_DispatchKeepsIMEClear == C36_Case => ~obs.post.IME


\* C37: between steps enableIRQ and disableIRQ are each 0 or 1, they are
\* never both non-zero, and both are 0 while the CPU is halted.
C37_Counters ==
    /\ enableIRQ \in {0, 1} /\ disableIRQ \in {0, 1}
    /\ ~(enableIRQ # 0 /\ disableIRQ # 0)
    /\ halted => (enableIRQ = 0 /\ disableIRQ = 0)
\* EI and then HALT were executed: the step of HALT counted the delay of EI
\* down, IME is set and the CPU is halted with both counters at 0.
C37_Witness ==
    /\ Ran /\ op = 118 /\ obs.last.kind = "exec" /\ obs.last.op = 251
    /\ obs.pre.enableIRQ = 1 /\ halted /\ IME
    /\ enableIRQ = 0 /\ disableIRQ = 0


\* A RETI at an interrupt vector was executed with SP where the latest
\* dispatch left it and the two stack bytes in memory the bus stores: the
\* handler has left the stack balanced and ends.
C38_Case ==
    /\ obs.kind = "exec" /\ op = 217
    /\ obs.svc.PC \in 64..103
    /\ obs.svc.SP = (obs.from.SP + 65534) % 65536
    /\ Stored(obs.svc.SP) /\ Stored((obs.svc.SP + 1) % 65536)

\* C38: a dispatch followed by a handler that leaves the stack balanced and
\* ends with RETI returns PC to the address of the first instruction not yet
\* executed at the dispatch and SP to its value before the dispatch, also
\* when the interrupt woke the CPU from HALT; the address a dispatch pushes
\* is the PC the step was called with.
C38_ReturnFromHandler ==
    /\ C38_Case => (obs.post.PC = obs.from.PC /\ obs.post.SP = obs.from.SP)
    /\ (Ran /\ obs.svc.disp # -1) =>
          /\ obs.from.PC = obs.pre.PC /\ obs.from.SP = obs.pre.SP
          /\ ~obs.pre.halted
          /\ (Stored(obs.svc.SP) /\ Stored((obs.svc.SP + 1) % 65536)) =>
                readByte(obs.svc.mem, obs.svc.SP)
                    + 256 * readByte(obs.svc.mem, (obs.svc.SP + 1) % 65536)
                  = obs.pre.PC
\* LDH (0xFF),A ; EI ; HALT ; NOP with NOP ; RETI at the vector: the request
\* woke the CPU, the NOP at 0x0104 ran, the next step dispatched and ran the
\* NOP of the handler, and the RETI has returned to 0x0105 with SP = 0xFFFE.
C38_Witness ==
    /\ C38_Case /\ cart.prog[4] = 118 /\ cart.isr = << 0, 217 >>
    /\ obs.last.kind = "exec" /\ obs.last.op = 0 /\ obs.last.disp # -1
    /\ obs.from.PC = 261 /\ PC = 261 /\ SP = 65534


\* The call before this one executed a RETI at an interrupt vector, and
\* this one was made with the CPU enabled.
C39_Case ==
    /\ Ran /\ obs.last.kind = "exec" /\ obs.last.op = 217
    /\ obs.last.PC \in 64..103 \/ obs.last.disp # -1

\* C39: between the RETI that ends a handler and the next dispatch at least
\* one instruction of the interrupted program executes, also with an enabled
\* interrupt pending at the RETI: the step after the RETI dispatches
\* nothing.
C39_ProgressAfterRETI == C39_Case => obs.svc.disp = -1

\* C39, amended: when IME is clear as the RETI executes, the step after the
\* RETI dispatches nothing, also with an enabled interrupt pending: it
\* fetches at the address the RETI returned to, and IME is set at its end
\* when the instruction it executes is not an EI or a RETI.
C39_ProgressAfterRETIClear ==
    (C39_Case /\ ~obs.last.svcIME) =>
        /\ obs.svc.disp = -1
        /\ ~obs.pre.IME
        /\ obs.kind \in {"exec", "stop"} /\ obs.svc.PC = obs.pre.PC
        /\ op = readByte(obs.pre.mem, obs.pre.PC)
        /\ (obs.kind = "exec" /\ op \notin {217, 251}) => obs.post.IME
\* VBlank was requested again inside the handler NOP ; RETI: the RETI ran
\* with IME clear, the NOP after it ran with VBlank pending and without a
\* dispatch, and IME is set now.
C39_Witness ==
    /\ C39_Case /\ ~obs.last.svcIME
    /\ cart.isr = << 0, 217 >>
    /\ Pending(obs.pre.mem) # 0
    /\ obs.svc.disp = -1 /\ obs.kind = "exec" /\ op = 0 /\ IME


\* C40: while cpuEnabled is false a call of cpuStep does nothing, however
\* often it is made: no timer tick, no interrupt sampled, nothing fetched,
\* and every register, latch, cyclesDelta, totalCycles and memory byte is
\* left as it was.
C40_DisabledNoOp ==
    /\ [](obs.kind = "off" =>
             /\ obs.ticks = 0 /\ obs.svc = obs.pre /\ obs.post = obs.pre
             /\ obs.svc.disp = -1)
    /\ [][(~cpuEnabled /\ ~cpuEnabled') =>
             UNCHANGED << AF, BC, DE, HL, SP, PC, IME, halted, enableIRQ,
                          disableIRQ, cyclesDelta, totalCycles, op, mem,
                          timerTicks, stopped, mbc, mbcLast >>]_vars
\* cpuStep was called twice with the CPU disabled: the state is the one of
\* reset.
C40_Witness ==
    /\ ~cpuEnabled /\ obs.kind = "off" /\ obs.last.kind = "off"
    /\ PC = 256 /\ SP = 65534 /\ AF = 432 /\ totalCycles = 0
    /\ timerTicks = 0 /\ mem = << >> /\ ~IME /\ ~halted

====
